---------------------------- MODULE Spec2Model ----------------------------
(***************************************************************************)
(* Model of the request pipeline of the cover-image service:               *)
(*   src/app/api/process/route.ts  (POST handler, rate limiter, sniffer)   *)
(*   src/lib/ffmpeg-secure.ts      (extractFrame, addCoverImage)           *)
(*                                                                         *)
(* Node runs the handler on one thread: the code between two 'await's is   *)
(* one atomic step.  Every action below is one such step of one request    *)
(* (or one timer callback); requests interleave only at their awaits.      *)
(***************************************************************************)
EXTENDS Integers, Sequences, FiniteSets, Bags, TLC

VARIABLES
    now,             \* Date.now(), in milliseconds
    rateLimitStore,  \* route.ts:19   Map<string, RateLimitEntry>, as a function on its keys
    activeRequests,  \* route.ts:26   let activeRequests = 0
    inflight,        \* bag of the admitted requests suspended at an await of POST
    ev,              \* the step just taken: the call, its inputs and its response
    history,         \* per client, what it has sent: see NoHistory
    call,            \* the function of the program just applied: its input and result
    invocation       \* ffmpeg-secure.ts:89-149  the invocation of the binary under way

vars == <<now, rateLimitStore, activeRequests, inflight, ev, history, call, invocation>>

-----------------------------------------------------------------------------
(* Program constants                                                       *)

MAX_REQUESTS_PER_MINUTE == 10

WINDOW_MS == 60000

BLOCK_DURATION_MS == 900000

SWEEP_AGE_MS == 3600000

MAX_CONCURRENT_REQUESTS == 5

MAX_FILE_SIZE == 104857600

MAX_TIMESTAMP == 86400

ALLOWED_TYPES == {"video/mp4", "video/mpeg", "video/quicktime", "video/x-msvideo"}

ALLOWED_EXTENSIONS == {".mp4", ".mov", ".mpeg", ".mpg", ".avi"}

\* 'undefined' of an optional numeric field (blockUntil, resetTime)
Undefined == -1

Truthy(x) == x # Undefined /\ x # 0

-----------------------------------------------------------------------------
(* Strings: JavaScript string primitives used by the handler               *)

Min(a, b) == IF a < b THEN a ELSE b

Max(a, b) == IF a > b THEN a ELSE b

CharAt(s, i) == SubSeq(s, i, i)

\* String.prototype.includes
Includes(s, sub) ==
    \E i \in 1..(Len(s) - Len(sub) + 1) : SubSeq(s, i, i + Len(sub) - 1) = sub

\* String.prototype.startsWith
StartsWith(s, p) == Len(p) <= Len(s) /\ SubSeq(s, 1, Len(p)) = p

Digits == {"0", "1", "2", "3", "4", "5", "6", "7", "8", "9"}

IsDigits(s) == \A i \in 1..Len(s) : CharAt(s, i) \in Digits

DigitVal(c) ==
    CASE c = "0" -> 0 [] c = "1" -> 1 [] c = "2" -> 2 [] c = "3" -> 3
      [] c = "4" -> 4 [] c = "5" -> 5 [] c = "6" -> 6 [] c = "7" -> 7
      [] c = "8" -> 8 [] c = "9" -> 9

DigitChar(d) ==
    CASE d = 0 -> "0" [] d = 1 -> "1" [] d = 2 -> "2" [] d = 3 -> "3"
      [] d = 4 -> "4" [] d = 5 -> "5" [] d = 6 -> "6" [] d = 7 -> "7"
      [] d = 8 -> "8" [] d = 9 -> "9"

\* String.prototype.repeat
RECURSIVE Repeat(_, _)
Repeat(c, n) ==
    IF n = 0 THEN "" ELSE IF n = 1 THEN c
    ELSE Repeat(c, n \div 2) \o Repeat(c, n - n \div 2)

\* the value of a digit string
RECURSIVE DigitsToNat(_)
DigitsToNat(s) ==
    IF Len(s) = 0 THEN 0
    ELSE 10 * DigitsToNat(SubSeq(s, 1, Len(s) - 1)) + DigitVal(CharAt(s, Len(s)))

\* the decimal digits of a natural number, no leading zeros
RECURSIVE NatToDigits(_)
NatToDigits(n) ==
    IF n < 10 THEN DigitChar(n) ELSE NatToDigits(n \div 10) \o DigitChar(n % 10)

\* n written with exactly w digits (leading zeros)
RECURSIVE PadDigits(_, _)
PadDigits(n, w) ==
    IF w = 0 THEN "" ELSE PadDigits(n \div 10, w - 1) \o DigitChar(n % 10)

-----------------------------------------------------------------------------
(* Timestamp hardening, route.ts:225-251.                                  *)
(* A number that passed the decimal pattern has at most six fraction       *)
(* digits; it is held exactly as [int, micro] (micro = millionths).  For   *)
(* such values below 2^31 the double nearest to the decimal prints back    *)
(* (toString, toFixed) to the same digits, so the exact value stands for   *)
(* the double.                                                             *)

\* timestampRaw.replace(/[^\d.]/g, '')
RECURSIVE stripNonNumeric(_)
stripNonNumeric(s) ==
    IF Len(s) = 0 THEN ""
    ELSE LET c == CharAt(s, 1)
         IN (IF c \in Digits \/ c = "." THEN c ELSE "")
                \o stripNonNumeric(SubSeq(s, 2, Len(s)))

\* index of the first '.' of s, 0 when there is none
FirstDot(s) ==
    IF \E i \in 1..Len(s) : CharAt(s, i) = "."
    THEN CHOOSE i \in 1..Len(s) :
             CharAt(s, i) = "." /\ \A j \in 1..(i - 1) : CharAt(s, j) # "."
    ELSE 0

\* /^\d+(\.\d{1,6})?$/.test(s)
matchesDecimal(s) ==
    LET d == FirstDot(s)
    IN IF d = 0 THEN Len(s) >= 1 /\ IsDigits(s)
       ELSE /\ d >= 2
            /\ IsDigits(SubSeq(s, 1, d - 1))
            /\ Len(s) - d \in 1..6
            /\ IsDigits(SubSeq(s, d + 1, Len(s)))

\* Number.parseFloat of a string that matches the decimal pattern
parseFloat(s) ==
    LET d == FirstDot(s)
    IN IF d = 0 THEN [int |-> DigitsToNat(s), micro |-> 0]
       ELSE LET frac == SubSeq(s, d + 1, Len(s))
            IN [int |-> DigitsToNat(SubSeq(s, 1, d - 1)),
                micro |-> DigitsToNat(frac \o PadDigits(0, 6 - Len(frac)))]

\* ts < 0 || ts > 86400  (a parsed digit string is never negative)
outOfRange(ts) ==
    ts.int > MAX_TIMESTAMP \/ (ts.int = MAX_TIMESTAMP /\ ts.micro > 0)

\* s without its trailing '0' characters
RECURSIVE dropTrailingZeros(_)
dropTrailingZeros(s) ==
    IF Len(s) > 0 /\ CharAt(s, Len(s)) = "0"
    THEN dropTrailingZeros(SubSeq(s, 1, Len(s) - 1))
    ELSE s

\* s.replace(/\.?0+$/, ''): the leftmost match is the run of zeros that ends
\* the string together with a '.' right before it
stripZeroTail(s) ==
    LET t == dropTrailingZeros(s)
    IN IF Len(t) = Len(s) THEN s
       ELSE IF Len(t) > 0 /\ CharAt(t, Len(t)) = "." THEN SubSeq(t, 1, Len(t) - 1)
       ELSE t

\* Number.prototype.toString: shortest decimal, no exponent in this range
numberToString(ts) ==
    IF ts.micro = 0 THEN NatToDigits(ts.int)
    ELSE NatToDigits(ts.int) \o "." \o dropTrailingZeros(PadDigits(ts.micro, 6))

\* ts.toFixed(6)
toFixed6(ts) == NatToDigits(ts.int) \o "." \o PadDigits(ts.micro, 6)

\* route.ts:247  the re-serialisation guard
roundTrips(ts, s) ==
    numberToString(ts) = s \/ stripZeroTail(toFixed6(ts)) = s

\* Responses are [status, body]
Response(status, body) == [status |-> status, body |-> body]

Pass == Response(0, "")

\* route.ts:356-364  the response that carries the output file
Success(disposition) ==
    [status |-> 200, body |-> "<output file>", disposition |-> disposition]

\* route.ts:226-249  timestampRaw is a string, or NotAString (absent, or a File)
NotAString == "<none>"

validateTimestamp(timestampRaw) ==
    IF timestampRaw = NotAString \/ timestampRaw = ""
    THEN Response(400, "Missing or invalid timestamp")
    ELSE LET sanitizedTimestamp == stripNonNumeric(timestampRaw)
         IN IF ~matchesDecimal(sanitizedTimestamp)
            THEN Response(400, "Invalid timestamp format")
            ELSE LET ts == parseFloat(sanitizedTimestamp)
                 IN IF outOfRange(ts)
                    THEN Response(400, "Invalid timestamp range")
                    ELSE IF ~roundTrips(ts, sanitizedTimestamp)
                    THEN Response(400, "Timestamp validation failed")
                    ELSE Pass

-----------------------------------------------------------------------------
(* Filename checks, route.ts:267-289                                       *)

UpperCase == "ABCDEFGHIJKLMNOPQRSTUVWXYZ"

LowerCase == "abcdefghijklmnopqrstuvwxyz"

lowerChar(c) ==
    IF \E i \in 1..26 : CharAt(UpperCase, i) = c
    THEN CharAt(LowerCase, CHOOSE i \in 1..26 : CharAt(UpperCase, i) = c)
    ELSE c

\* String.prototype.toLowerCase
RECURSIVE toLowerCase(_)
toLowerCase(s) ==
    IF Len(s) = 0 THEN ""
    ELSE lowerChar(CharAt(s, 1)) \o toLowerCase(SubSeq(s, 2, Len(s)))

\* s without its trailing '/' characters
RECURSIVE dropTrailingSlashes(_)
dropTrailingSlashes(s) ==
    IF Len(s) > 0 /\ CharAt(s, Len(s)) = "/"
    THEN dropTrailingSlashes(SubSeq(s, 1, Len(s) - 1))
    ELSE s

\* index of the last occurrence of character c in s, 0 when there is none
LastIndexOf(s, c) ==
    LET found == {i \in 1..Len(s) : CharAt(s, i) = c}
    IN IF found = {} THEN 0 ELSE CHOOSE i \in found : \A j \in found : j <= i

\* path.extname (posix): the last path component from its last '.', empty
\* when it has no '.', starts with its only '.', or is '..'
extname(p) ==
    LET trimmed == dropTrailingSlashes(p)
        base == SubSeq(trimmed, LastIndexOf(trimmed, "/") + 1, Len(trimmed))
        dot == LastIndexOf(base, ".")
    IN IF dot = 0 \/ dot = 1 \/ base = ".." THEN ""
       ELSE SubSeq(base, dot, Len(base))

\* faulty variant: only the separators are looked for
hasSeparator(name) ==
    \E i \in 1..Len(name) : CharAt(name, i) \in {"/", "\\"}

\* route.ts:287
hasTraversal(name) ==
    \/ Includes(name, "..")
    \/ \E i \in 1..Len(name) : CharAt(name, i) \in {"/", "\\"}

\* the characters /[^a-zA-Z0-9._-]/ leaves alone
safeCharacters ==
    {CharAt(UpperCase, i) : i \in 1..26} \cup {CharAt(LowerCase, i) : i \in 1..26}
        \cup Digits \cup {".", "_", "-"}

\* .replace(/[^a-zA-Z0-9._-]/g, '_')
RECURSIVE replaceUnsafe(_)
replaceUnsafe(s) ==
    IF Len(s) = 0 THEN ""
    ELSE IF Len(s) = 1 THEN (IF s \in safeCharacters THEN s ELSE "_")
    ELSE replaceUnsafe(SubSeq(s, 1, Len(s) \div 2))
             \o replaceUnsafe(SubSeq(s, Len(s) \div 2 + 1, Len(s)))

MAX_NAME_LENGTH == 100

\* .substring(0, 100)
substring100(s) == SubSeq(s, 1, Min(Len(s), MAX_NAME_LENGTH))

\* .replace(/^\.+/, '')
dropLeadingDots(s) ==
    LET kept == {i \in 1..Len(s) : CharAt(s, i) # "."}
    IN IF kept = {} THEN ""
       ELSE SubSeq(s, CHOOSE i \in kept : \A j \in kept : i <= j, Len(s))

\* .replace(/\.+$/, '')
dropTrailingDots(s) ==
    LET kept == {i \in 1..Len(s) : CharAt(s, i) # "."}
    IN IF kept = {} THEN ""
       ELSE SubSeq(s, 1, CHOOSE i \in kept : \A j \in kept : i >= j)

\* faulty variant: the dots are stripped before the name is cut
sanitizeCutLast(name) ==
    LET stripped == substring100(dropTrailingDots(dropLeadingDots(replaceUnsafe(name))))
    IN IF stripped = "" THEN "video" ELSE stripped

\* route.ts:292-297  sanitizedFilename
sanitizeFilename(name) ==
    LET stripped == dropTrailingDots(dropLeadingDots(substring100(replaceUnsafe(name))))
    IN IF stripped = "" THEN "video" ELSE stripped

\* path.parse(p).name of a path without separators: p without its extension
pathParseName(p) == SubSeq(p, 1, Len(p) - Len(extname(p)))

\* .replace(/["\r\n]/g, '')
RECURSIVE removeQuotesAndNewlines(_)
removeQuotesAndNewlines(s) ==
    IF Len(s) = 0 THEN ""
    ELSE IF Len(s) = 1 THEN (IF s \in {"\"", "\r", "\n"} THEN "" ELSE s)
    ELSE removeQuotesAndNewlines(SubSeq(s, 1, Len(s) \div 2))
             \o removeQuotesAndNewlines(SubSeq(s, Len(s) \div 2 + 1, Len(s)))

\* route.ts:349-355  safeAttachmentName
safeAttachmentName(sanitizedFilename) ==
    LET parsed == pathParseName(sanitizedFilename)
        base == IF parsed = "" THEN "output" ELSE parsed
        attachmentName == base \o "_with_cover.mp4"
    IN substring100(removeQuotesAndNewlines(attachmentName))

\* route.ts:360  the Content-Disposition header
contentDisposition(sanitizedFilename) ==
    "attachment; filename=\"" \o safeAttachmentName(sanitizedFilename) \o "\""

-----------------------------------------------------------------------------
(* Content sniffing, route.ts:118-189.                                     *)
(* A buffer is [size, head, fill]: 'size' bytes, the first Len(head) of    *)
(* them listed, the others all equal to 'fill'.                            *)

byteAt(buffer, i) ==
    IF i < Len(buffer.head) THEN buffer.head[i + 1] ELSE buffer.fill

\* route.ts:120-125
bytesAt(buffer, offset, sequence) ==
    IF buffer.size < offset + Len(sequence) THEN FALSE
    ELSE \A i \in 1..Len(sequence) : byteAt(buffer, offset + i - 1) = sequence[i]

supportedMimes == {"video/mp4", "video/quicktime", "video/x-msvideo", "video/mpeg"}

validBrands ==
    { <<105, 115, 111, 109>>,    \* 'isom'
      <<109, 112, 52, 49>>,      \* 'mp41'
      <<109, 112, 52, 50>>,      \* 'mp42'
      <<113, 116, 32, 32>> }     \* 'qt  '

\* buffer.slice(8, 12): the bytes that exist in [8, 12)
brandBytes(buffer) ==
    [i \in 1..Max(0, Min(buffer.size, 12) - 8) |-> byteAt(buffer, 7 + i)]

\* brandBytes.every((byte, i) => byte === brand[i])
brandMatches(bytes, brand) == \A i \in 1..Len(bytes) : bytes[i] = brand[i]

\* faulty variant: the strides of the whole buffer are counted
validSyncBytesWhole(buffer) ==
    Cardinality({k \in 0..15 : 188 * k < buffer.size
                               /\ byteAt(buffer, 188 * k) = 71})

\* route.ts:169-174  sync bytes at the 188-byte strides below min(length, 1880)
validSyncBytes(buffer) ==
    Cardinality({k \in 0..9 : 188 * k < Min(buffer.size, 1880)
                              /\ byteAt(buffer, 188 * k) = 71})

\* route.ts:140-188  the magic-number fallback
magicNumberMatch(buffer) ==
    \/ /\ buffer.size >= 8
       /\ bytesAt(buffer, 4, <<102, 116, 121, 112>>)
       /\ \E brand \in validBrands : brandMatches(brandBytes(buffer), brand)
    \/ buffer.size >= 4 /\ bytesAt(buffer, 0, <<0, 0, 1, 186>>)
    \/ buffer.size >= 376 /\ byteAt(buffer, 0) = 71 /\ validSyncBytes(buffer) >= 3
    \/ /\ buffer.size >= 12
       /\ bytesAt(buffer, 0, <<82, 73, 70, 70>>)
       /\ bytesAt(buffer, 8, <<65, 86, 73, 32>>)

\* 'detected' is what fileTypeFromBuffer answered: a MIME type, "none", or
\* "throw" when the library failed (caught and logged, route.ts:136)
isValidVideoFile(buffer, detected) ==
    \/ detected \in supportedMimes
    \/ magicNumberMatch(buffer)

-----------------------------------------------------------------------------
(* Rate limiting, route.ts:12-111                                          *)

\* String.prototype.trim (the white space of header values: space and tab)
trim(s) ==
    LET kept == {i \in 1..Len(s) : CharAt(s, i) \notin {" ", "\t"}}
    IN IF kept = {} THEN ""
       ELSE SubSeq(s, CHOOSE i \in kept : \A j \in kept : i <= j,
                      CHOOSE i \in kept : \A j \in kept : i >= j)

\* s.split(',')[0]
firstEntry(s) ==
    LET commas == {i \in 1..Len(s) : CharAt(s, i) = ","}
    IN IF commas = {} THEN s
       ELSE SubSeq(s, 1, (CHOOSE i \in commas : \A j \in commas : i <= j) - 1)

\* what req.headers.get answers for a header the request does not carry
NoHeader == "<null>"

\* the truthiness of what req.headers.get answered
HeaderSet(value) == value # NoHeader /\ value # ""

\* faulty variant: x-real-ip is looked at first
getClientIPRealFirst(headers) ==
    IF HeaderSet(headers.realIp) THEN trim(headers.realIp)
    ELSE IF HeaderSet(headers.forwarded) THEN trim(firstEntry(headers.forwarded))
    ELSE IF HeaderSet(headers.cfConnectingIp) THEN trim(headers.cfConnectingIp)
    ELSE "unknown-ip"

\* route.ts:43-62  headers: what get answers for x-forwarded-for, x-real-ip
\* and cf-connecting-ip
getClientIP(headers) ==
    IF HeaderSet(headers.forwarded) THEN trim(firstEntry(headers.forwarded))
    ELSE IF HeaderSet(headers.realIp) THEN trim(headers.realIp)
    ELSE IF HeaderSet(headers.cfConnectingIp) THEN trim(headers.cfConnectingIp)
    ELSE "unknown-ip"

\* route.ts:69-73  the entry of a client the store does not hold
newEntry(t) ==
    [requests |-> 0, lastReset |-> t, blocked |-> FALSE, blockUntil |-> Undefined]

\* Map.prototype.set
MapSet(store, key, value) ==
    [k \in DOMAIN store \cup {key} |-> IF k = key THEN value ELSE store[k]]

\* faulty variant: a block never expires
blockActiveForEver(entry, t) == entry.blocked /\ Truthy(entry.blockUntil)

\* faulty variant: a block is forgotten once the 60 s window is over
blockActiveInWindow(entry, t) ==
    /\ entry.blocked /\ Truthy(entry.blockUntil) /\ t < entry.blockUntil
    /\ t - entry.lastReset <= WINDOW_MS

\* route.ts:76
blockActive(entry, t) ==
    entry.blocked /\ Truthy(entry.blockUntil) /\ t < entry.blockUntil

\* faulty variant: the window is taken to last as long as a block and a window
windowExpiredLate(entry, t) == t - entry.lastReset > BLOCK_DURATION_MS + WINDOW_MS

\* route.ts:85
windowExpired(entry, t) == t - entry.lastReset > WINDOW_MS

\* faulty variant: an 11th request is let through
limitReachedLate(entry) == entry.requests > MAX_REQUESTS_PER_MINUTE

\* route.ts:93
limitReached(entry) == entry.requests >= MAX_REQUESTS_PER_MINUTE

\* faulty variant: a request refused during a block renews the block
checkRateLimitRenewing(store, ip, t) ==
    LET entry == IF ip \in DOMAIN store THEN store[ip] ELSE newEntry(t)
    IN IF blockActive(entry, t)
       THEN [allowed |-> FALSE, resetTime |-> t + BLOCK_DURATION_MS,
             reason |-> "IP temporarily blocked due to excessive requests",
             store |-> MapSet(store, ip,
                              [entry EXCEPT !.blockUntil = t + BLOCK_DURATION_MS])]
       ELSE LET e == IF windowExpired(entry, t) THEN newEntry(t) ELSE entry
            IN IF limitReached(e)
               THEN [allowed |-> FALSE, resetTime |-> t + BLOCK_DURATION_MS,
                     reason |-> "Rate limit exceeded - too many requests per minute",
                     store |-> MapSet(store, ip,
                                  [e EXCEPT !.blocked = TRUE,
                                            !.blockUntil = t + BLOCK_DURATION_MS])]
               ELSE [allowed |-> TRUE, resetTime |-> Undefined, reason |-> "",
                     store |-> MapSet(store, ip, [e EXCEPT !.requests = @ + 1])]

\* route.ts:67-111  the answer and the store it leaves
checkRateLimit(store, ip, t) ==
    LET entry == IF ip \in DOMAIN store THEN store[ip] ELSE newEntry(t)
    IN IF blockActive(entry, t)
       THEN [allowed |-> FALSE, resetTime |-> entry.blockUntil,
             reason |-> "IP temporarily blocked due to excessive requests",
             store |-> store]
       ELSE LET e == IF windowExpired(entry, t) THEN newEntry(t) ELSE entry
            IN IF limitReached(e)
               THEN [allowed |-> FALSE, resetTime |-> t + BLOCK_DURATION_MS,
                     reason |-> "Rate limit exceeded - too many requests per minute",
                     store |-> MapSet(store, ip,
                                  [e EXCEPT !.blocked = TRUE,
                                            !.blockUntil = t + BLOCK_DURATION_MS])]
               ELSE [allowed |-> TRUE, resetTime |-> Undefined, reason |-> "",
                     store |-> MapSet(store, ip, [e EXCEPT !.requests = @ + 1])]

\* faulty variant: the seconds are rounded down
floorSeconds(ms) == ms \div 1000

\* Math.ceil(ms / 1000) for ms >= 0
ceilSeconds(ms) == (ms + 999) \div 1000

\* route.ts:201-203  the Retry-After header
retryAfter(resetTime, t) ==
    IF Truthy(resetTime) THEN ceilSeconds(resetTime - t) ELSE 900

\* faulty variant: an entry is removed once its window is over
sweepKeepsAMinute(entry, t) == ~(t - entry.lastReset > WINDOW_MS)

\* faulty variant: an entry is removed as soon as it is one hour old
sweepKeepsUnderAnHour(entry, t) == ~(t - entry.lastReset >= SWEEP_AGE_MS)

\* route.ts:31-37  the entries the sweep keeps
sweepKeeps(entry, t) == ~(t - entry.lastReset > SWEEP_AGE_MS)

sweep(store, t) ==
    [k \in {ip \in DOMAIN store : sweepKeeps(store[ip], t)} |-> store[k]]

\* faulty variant: the gate lets one request too many in
gateClosedLate(n) == n > MAX_CONCURRENT_REQUESTS

\* faulty variant: the gate closes one request early
gateClosedEarly(n) == n >= MAX_CONCURRENT_REQUESTS - 1

\* route.ts:210
gateClosed(n) == n >= MAX_CONCURRENT_REQUESTS

\* route.ts:214
acquire(n) == n + 1

\* faulty variant: the slot is not given back
releaseSkipped(n) == n

\* route.ts:393
release(n) == n - 1

-----------------------------------------------------------------------------
(* The media operations, ffmpeg-secure.ts                                  *)

Ok == ""

\* ffmpeg-secure.ts:30-54  (no allowedDir is ever passed; the backquote of
\* the source's list cannot be written in a TLA+ string and no path holds one)
validatePath(filePath) ==
    /\ ~Includes(filePath, "..")
    /\ \A i \in 1..Len(filePath) :
           CharAt(filePath, i) \notin {"~", "$", "|", "&", ";", "(", ")"}

\* ffmpeg-secure.ts:59-61 on a timestamp: in range, and value * 1000000 a
\* safe integer.  The product is exact for a whole number of seconds; for a
\* fraction the double product may or may not be integral ('integral').
validateSeekTime(ts, integral) ==
    ~outOfRange(ts) /\ (ts.micro = 0 \/ integral)

\* ffmpeg-secure.ts:59-61 on an integer option
validateNumeric(value, min, max) == value >= min /\ value <= max

EXTRACT_TIMEOUT_MS == 30000

COVER_TIMEOUT_MS == 60000

\* ffmpeg-secure.ts:89-149  what the promise settles with, given the first of
\* the process events to arrive: Ok, or the message of the Error
executeFFmpeg(proc) ==
    CASE proc.kind = "nobinary" -> "FFmpeg binary not found"
      [] proc.kind = "timeout"  -> "FFmpeg operation timed out"
      [] proc.kind = "error"    -> "FFmpeg process error: " \o proc.text
      [] proc.kind = "close"    ->
            IF proc.code = 0 THEN Ok
            ELSE "FFmpeg failed with code " \o NatToDigits(proc.code) \o ": " \o proc.text

\* ffmpeg-secure.ts:129-131  the signal sent to the process
signalSent(proc) == IF proc.kind = "timeout" THEN "SIGKILL" ELSE ""

\* ffmpeg-secure.ts:154-201
extractFrame(input, output, seekTime, integral, files, proc) ==
    IF ~validatePath(input) \/ ~validatePath(output) THEN "Invalid file paths"
    ELSE IF ~validateSeekTime(seekTime, integral)
    THEN "Invalid seek time - must be between 0 and 86400 seconds"
    ELSE IF ~validateNumeric(1, 1, 10)
    THEN "Invalid frame count - must be between 1 and 10"
    ELSE IF ~validateNumeric(2, 1, 31)
    THEN "Invalid quality setting - must be between 1 and 31"
    ELSE IF ~validateNumeric(EXTRACT_TIMEOUT_MS, 1000, 300000)
    THEN "Invalid timeout - must be between 1000 and 300000 ms"
    ELSE IF files = "missing" THEN "Input file does not exist"
    ELSE IF files = "unreadable" THEN "Input file is not readable"
    ELSE executeFFmpeg(proc)

\* ffmpeg-secure.ts:206-249
addCoverImage(videoInput, imageInput, output, files, proc) ==
    IF ~validatePath(videoInput) \/ ~validatePath(imageInput) \/ ~validatePath(output)
    THEN "Invalid file paths"
    ELSE IF ~validateNumeric(COVER_TIMEOUT_MS, 1000, 600000)
    THEN "Invalid timeout - must be between 1000 and 600000 ms"
    ELSE IF files = "missing" THEN "Input file does not exist: cover.jpg"
    ELSE IF files = "unreadable" THEN "Input file is not readable: cover.jpg"
    ELSE executeFFmpeg(proc)

\* ffmpeg-secure.ts:102-103
safeFlags ==
    { "-i", "-ss", "-vframes", "-q:v", "-y", "-map", "-c:v", "-c:a", "-c:s",
      "-c:v:1", "-disposition:v:1", "-metadata:s:v:1", "-f", "-" }

\* faulty variant: only the arguments at the even indices are looked at
flagCheckedEven(args, i) ==
    StartsWith(args[i], "-") /\ (i - 1) % 2 = 0

\* ffmpeg-secure.ts:100  the arguments the flag check looks at (args[i] is the
\* argument of index i - 1)
flagChecked(args, i) ==
    StartsWith(args[i], "-") /\ (i - 1 = 0 \/ (i - 1) % 2 = 1)

\* ffmpeg-secure.ts:98-112  args.map(...): Ok, or the message of the Error
\* thrown at the first unsafe flag
sanitizeArgs(args) ==
    LET unsafe == {i \in 1..Len(args) : flagChecked(args, i) /\ args[i] \notin safeFlags}
    IN IF unsafe = {} THEN Ok
       ELSE "Unsafe FFmpeg flag: " \o args[CHOOSE i \in unsafe : \A j \in unsafe : i <= j]

\* ffmpeg-secure.ts:191-198  (the options have passed validateNumeric)
extractFrameArgs(options) ==
    << "-i", options.input, "-ss", numberToString(options.seekTime),
       "-vframes", NatToDigits(options.frames), "-q:v", NatToDigits(options.quality),
       "-y", options.output >>

\* ffmpeg-secure.ts:233-246
addCoverImageArgs(options) ==
    << "-i", options.videoInput, "-i", options.imageInput, "-map", "0",
       "-map", "1:v:0", "-c:v", "copy", "-c:a", "copy", "-c:s", "copy",
       "-c:v:1", "mjpeg", "-disposition:v:1", "attached_pic",
       "-metadata:s:v:1", "title=Cover", "-y", options.output >>

\* ffmpeg-secure.ts:157-188  the checks of extractFrame on any options
extractFrameChecks(options, integral, files) ==
    IF ~validatePath(options.input) \/ ~validatePath(options.output)
    THEN "Invalid file paths"
    ELSE IF options.seekTime.int < 0 \/ ~validateSeekTime(options.seekTime, integral)
    THEN "Invalid seek time - must be between 0 and 86400 seconds"
    ELSE IF ~validateNumeric(options.frames, 1, 10)
    THEN "Invalid frame count - must be between 1 and 10"
    ELSE IF ~validateNumeric(options.quality, 1, 31)
    THEN "Invalid quality setting - must be between 1 and 31"
    ELSE IF ~validateNumeric(options.timeout, 1000, 300000)
    THEN "Invalid timeout - must be between 1000 and 300000 ms"
    ELSE IF files = "missing" THEN "Input file does not exist"
    ELSE IF files = "unreadable" THEN "Input file is not readable"
    ELSE Ok

\* path.basename of a path
basename(p) ==
    LET trimmed == dropTrailingSlashes(p)
    IN SubSeq(trimmed, LastIndexOf(trimmed, "/") + 1, Len(trimmed))

\* ffmpeg-secure.ts:209-230  the checks of addCoverImage on any options
\* (files tells of the image input)
addCoverImageChecks(options, files) ==
    IF \/ ~validatePath(options.videoInput) \/ ~validatePath(options.imageInput)
       \/ ~validatePath(options.output)
    THEN "Invalid file paths"
    ELSE IF ~validateNumeric(options.timeout, 1000, 600000)
    THEN "Invalid timeout - must be between 1000 and 600000 ms"
    ELSE IF files = "missing"
    THEN "Input file does not exist: " \o basename(options.imageInput)
    ELSE IF files = "unreadable"
    THEN "Input file is not readable: " \o basename(options.imageInput)
    ELSE Ok

\* An invocation of the binary:
\*   op, options   the operation called and its options
\*   args          the argument vector handed to spawn, <<>> while none was
\*   process       "none", "running" (spawned), "exited" (its close event came)
\*   timer         the timeout: "none", "armed", "cleared", "fired"
\*   promise       "pending", "fulfilled", "rejected"; message: the Error's
\*   settled       how often resolve or reject has been called
\*   signal        the signal sent by process.kill
\*   stderr        the text collected, chunks: how many pieces of it
\*   closed        the code of the close event (Undefined: none yet, or null)
\*   errored       the error event came
Invocation(op, options) ==
    [op |-> op, options |-> options, args |-> <<>>, process |-> "none",
     timer |-> "none", promise |-> "pending", message |-> "", settled |-> 0,
     signal |-> "", stderr |-> "", chunks |-> 0, closed |-> Undefined,
     closeSeen |-> FALSE, errored |-> FALSE]

\* faulty variant: the last call of resolve or reject decides
settleLast(inv, outcome, message) ==
    [inv EXCEPT !.promise = outcome, !.message = message, !.settled = @ + 1]

\* a call of resolve or reject: a promise settles at the first one only
settle(inv, outcome, message) ==
    IF inv.promise = "pending"
    THEN [inv EXCEPT !.promise = outcome, !.message = message, !.settled = @ + 1]
    ELSE [inv EXCEPT !.settled = @ + 1]

\* faulty variant: the process is spawned without the timeout being armed
startFFmpegNoTimer(inv, args, binary) ==
    IF ~binary THEN settle(inv, "rejected", "FFmpeg binary not found")
    ELSE IF sanitizeArgs(args) # Ok THEN settle(inv, "rejected", sanitizeArgs(args))
    ELSE [inv EXCEPT !.args = args, !.process = "running"]

\* ffmpeg-secure.ts:89-132  the executor of the promise: binary check, flag
\* check, spawn, timer
startFFmpeg(inv, args, binary) ==
    IF ~binary THEN settle(inv, "rejected", "FFmpeg binary not found")
    ELSE IF sanitizeArgs(args) # Ok THEN settle(inv, "rejected", sanitizeArgs(args))
    ELSE [inv EXCEPT !.args = args, !.process = "running", !.timer = "armed"]

\* ffmpeg-secure.ts:129-132  the timeout callback
timeoutFired(inv) ==
    settle([inv EXCEPT !.timer = "fired", !.signal = "SIGKILL"],
           "rejected", "FFmpeg operation timed out")

\* clearTimeout(timeout)
clearTimeout(inv) == [inv EXCEPT !.timer = IF @ = "armed" THEN "cleared" ELSE @]

\* the code of a close event as a template literal prints it
codeText(code) == IF code = Undefined THEN "null" ELSE NatToDigits(code)

\* ffmpeg-secure.ts:134-142  the close handler
closeHandler(inv, code) ==
    LET cleared == [clearTimeout(inv) EXCEPT !.process = "exited", !.closed = code,
                                            !.closeSeen = TRUE]
    IN IF code = 0 THEN settle(cleared, "fulfilled", "")
       ELSE settle(cleared, "rejected",
                   "FFmpeg failed with code " \o codeText(code) \o ": " \o inv.stderr)

\* ffmpeg-secure.ts:144-147  the error handler
errorHandler(inv, text) ==
    settle([clearTimeout(inv) EXCEPT !.errored = TRUE],
           "rejected", "FFmpeg process error: " \o text)

\* faulty variant: the message of an unclassified Error is passed on
classifyErrorVerbose(message) ==
    IF Includes(message, "timeout") THEN Response(408, "Processing timeout")
    ELSE IF Includes(message, "Invalid") THEN Response(400, "Invalid video format")
    ELSE IF Includes(message, "No such file") THEN Response(400, "File processing error")
    ELSE Response(500, "Processing error: " \o message)

\* faulty variant: 'Invalid' is looked for before 'timeout'
classifyErrorInvalidFirst(message) ==
    IF Includes(message, "Invalid") THEN Response(400, "Invalid video format")
    ELSE IF Includes(message, "timeout") THEN Response(408, "Processing timeout")
    ELSE IF Includes(message, "No such file") THEN Response(400, "File processing error")
    ELSE Response(500, "Processing error")

\* route.ts:366-382  the response to an Error caught around the media work
classifyError(message) ==
    IF Includes(message, "timeout") THEN Response(408, "Processing timeout")
    ELSE IF Includes(message, "Invalid") THEN Response(400, "Invalid video format")
    ELSE IF Includes(message, "No such file") THEN Response(400, "File processing error")
    ELSE Response(500, "Processing error")

\* route.ts:366-382  the catch block: what was thrown is an Error with a
\* message, or some other value
classifyThrown(thrown) ==
    IF thrown.isError THEN classifyError(thrown.message)
    ELSE Response(500, "Processing error")

-----------------------------------------------------------------------------
(* Upload validation, route.ts:217-289, in the order of the code           *)

\* the multipart body as parsed by req.formData()
NoBuffer == [size |-> 0, head |-> <<>>, fill |-> 0]

NoForm ==
    [video |-> FALSE, timestampRaw |-> NotAString, type |-> "", name |-> "",
     buffer |-> NoBuffer, detected |-> "none"]

\* faulty variant: the size is checked before the timestamp
validateUploadSizeFirst(form) ==
    IF ~form.video THEN Response(400, "Missing file")
    ELSE IF form.buffer.size > MAX_FILE_SIZE
    THEN Response(413, "File too large. Maximum size is 100MB.")
    ELSE IF validateTimestamp(form.timestampRaw) # Pass
    THEN validateTimestamp(form.timestampRaw)
    ELSE IF form.type \notin ALLOWED_TYPES THEN Response(400, "Invalid file type. Allowed types are: video/mp4, video/mpeg, video/quicktime, video/x-msvideo")
    ELSE IF toLowerCase(extname(form.name)) \notin ALLOWED_EXTENSIONS
    THEN Response(400, "Invalid file extension. Allowed extensions are: .mp4, .mov, .mpeg, .mpg, .avi")
    ELSE Pass

\* route.ts:221-271  the checks made before the file is read
validateUpload(form) ==
    IF ~form.video THEN Response(400, "Missing file")
    ELSE IF validateTimestamp(form.timestampRaw) # Pass
    THEN validateTimestamp(form.timestampRaw)
    ELSE IF form.buffer.size > MAX_FILE_SIZE
    THEN Response(413, "File too large. Maximum size is 100MB.")
    ELSE IF form.type \notin ALLOWED_TYPES THEN Response(400, "Invalid file type. Allowed types are: video/mp4, video/mpeg, video/quicktime, video/x-msvideo")
    ELSE IF toLowerCase(extname(form.name)) \notin ALLOWED_EXTENSIONS
    THEN Response(400, "Invalid file extension. Allowed extensions are: .mp4, .mov, .mpeg, .mpg, .avi")
    ELSE Pass

\* faulty variant: the content and the filename are not checked
validateContentSkipped(form) == Pass

\* route.ts:276-289  the checks made once the file was read
validateContent(form) ==
    IF ~isValidVideoFile(form.buffer, form.detected)
    THEN Response(400, "Invalid or unsupported video file content.")
    ELSE IF form.name = "" THEN Response(400, "Invalid filename")
    ELSE IF hasTraversal(form.name)
    THEN Response(400, "Invalid filename - path traversal detected")
    ELSE Pass

\* route.ts:299-318  the workspace paths
TMPDIR == "/tmp"

mkdtemp == TMPDIR \o "/cover-app-" \o "Ab12Cd"

inputExt(type) ==
    CASE type = "video/mp4" -> "mp4"
      [] type = "video/quicktime" -> "mov"
      [] type = "video/mpeg" -> "mpg"
      [] OTHER -> "mp4"

inputPath(tempDir, t, type) ==
    tempDir \o "/input_" \o NatToDigits(t) \o "." \o inputExt(type)

coverPath(tempDir) == tempDir \o "/cover.jpg"

outputPath(tempDir) == tempDir \o "/output.mp4"

\* route.ts:316
pathsInside(tempDir, t, type) ==
    /\ StartsWith(inputPath(tempDir, t, type), tempDir)
    /\ StartsWith(coverPath(tempDir), tempDir)
    /\ StartsWith(outputPath(tempDir), tempDir)

-----------------------------------------------------------------------------
(* State                                                                   *)

\* An admitted request, suspended at the await named by pc
\* (stamp is timestamp_safe, route.ts:310; every request's directory is written
\* with the same name here, the requests being told apart by their records;
\* trail lists the awaited operations of route.ts:329-346 that have succeeded)
Request(pc, form, tempDir, stamp, error, signal, resp) ==
    [pc |-> pc, form |-> form, tempDir |-> tempDir, stamp |-> stamp,
     error |-> error, signal |-> signal, resp |-> resp, trail |-> <<>>]

NewRequest == Request("formData", NoForm, "none", 0, Ok, "", Pass)

\* The step just taken.  op: "init", "POST" (a request arrived), "await" (a
\* request moved on to its next await), "respond" (the handler of an admitted
\* request ended), "tick", "sweep".  For POST, status 0 means admitted; for
\* respond, req is the request as it ended.
Event(op, client, resp, retry, req) ==
    [op |-> op, client |-> client, status |-> resp.status, body |-> resp.body,
     retryAfter |-> retry,
     disposition |-> IF "disposition" \in DOMAIN resp THEN resp.disposition ELSE "",
     req |-> req]

Quiet(op) == Event(op, "", Pass, Undefined, NewRequest)

\* what the framework answers when the handler throws
Uncaught == Response(500, "<uncaught exception>")

\* the requests counted one by one in a client's history
MaxCounted == 12

\* The history of a client whose first request arrives at time t:
\*   first     the time of its first request
\*   count     the number of its requests so far (MaxCounted: that many or more)
\*   eleventh  the time of its 11th request
\*   passes    the bag of the times, at most 60 s back, at which a request of
\*             it passed the rate check
\*   touched   the time of its latest request
NoHistory(t) ==
    [first |-> t, count |-> 0, eleventh |-> Undefined, passes |-> EmptyBag,
     touched |-> t]

\* one more request of ip at time t, which passed the rate check or not
Logged(h, ip, t, allowed) ==
    LET old == IF ip \in DOMAIN h THEN h[ip] ELSE NoHistory(t)
    IN MapSet(h, ip,
              [old EXCEPT !.count = Min(@ + 1, MaxCounted),
                          !.eleventh = IF old.count = 10 THEN t ELSE @,
                          !.passes = IF allowed THEN @ (+) SetToBag({t}) ELSE @,
                          !.touched = t])

\* the passes of a bag that are at most 60 s old at time t
Recent(bag, t) == [u \in {v \in DOMAIN bag : t - v <= WINDOW_MS} |-> bag[u]]

\* no function of the program has been applied on its own
NoCall == [fn |-> "none", input |-> "", result |-> ""]

\* no invocation of the binary is under way
NoInvocation == Invocation("none", <<>>)

Init ==
    /\ call = NoCall
    /\ invocation = NoInvocation
    /\ now = 0
    /\ rateLimitStore = <<>>
    /\ activeRequests = 0
    /\ inflight = EmptyBag
    /\ ev = Quiet("init")
    /\ history = <<>>

Suspended(pc) == {r \in BagToSet(inflight) : r.pc = pc}

\* request r goes on as r2
Moved(r, r2) ==
    /\ inflight' = (inflight (-) SetToBag({r})) (+) SetToBag({r2})
    /\ ev' = Quiet("await")
    /\ UNCHANGED <<now, rateLimitStore, activeRequests, history, call>>

\* request r moves on to its next await as r2
Continue(r, r2) == Moved(r, r2) /\ UNCHANGED invocation

\* route.ts:391-394  the handler of r ends with resp, the request being then
\* as in final; the slot is given back
Finish(r, final, resp) ==
    /\ inflight' = inflight (-) SetToBag({r})
    /\ activeRequests' = release(activeRequests)
    /\ ev' = Event("respond", "", resp, Undefined, [final EXCEPT !.resp = resp])
    /\ UNCHANGED <<now, rateLimitStore, history, call, invocation>>

-----------------------------------------------------------------------------
(* Actions                                                                 *)

\* faulty variant: the concurrency gate is looked at before the rate check, so
\* a request refused as busy is not counted
POSTGateFirst(ip) ==
    IF gateClosed(activeRequests)
    THEN /\ ev' = Event("POST", ip,
                        Response(503, "Server busy, please try again later"),
                        Undefined, NewRequest)
         /\ rateLimitStore' = MapSet(rateLimitStore, ip,
                                     IF ip \in DOMAIN rateLimitStore
                                     THEN rateLimitStore[ip] ELSE newEntry(now))
         /\ history' = Logged(history, ip, now, FALSE)
         /\ UNCHANGED <<now, activeRequests, inflight, call, invocation>>
    ELSE LET rateLimitCheck == checkRateLimit(rateLimitStore, ip, now)
         IN /\ rateLimitStore' = rateLimitCheck.store
            /\ history' = Logged(history, ip, now, rateLimitCheck.allowed)
            /\ IF ~rateLimitCheck.allowed
               THEN /\ ev' = Event("POST", ip, Response(429, rateLimitCheck.reason),
                                   retryAfter(rateLimitCheck.resetTime, now), NewRequest)
                    /\ UNCHANGED <<activeRequests, inflight>>
               ELSE /\ activeRequests' = acquire(activeRequests)
                    /\ inflight' = inflight (+) SetToBag({NewRequest})
                    /\ ev' = Event("POST", ip, Pass, Undefined, NewRequest)
            /\ UNCHANGED <<now, call, invocation>>

\* route.ts:191-217  a request of client ip arrives: rate check, concurrency
\* gate, increment, up to the await of req.formData().  The clock is read by
\* checkRateLimit (route.ts:68, the reading 'now') and once more when the
\* Retry-After header is built (route.ts:202, the reading 'answered').
POSTAnswered(ip, answered) ==
    LET rateLimitCheck == checkRateLimit(rateLimitStore, ip, now)
    IN /\ rateLimitStore' = rateLimitCheck.store
       /\ history' = Logged(history, ip, now, rateLimitCheck.allowed)
       /\ IF ~rateLimitCheck.allowed
          THEN /\ ev' = Event("POST", ip, Response(429, rateLimitCheck.reason),
                              retryAfter(rateLimitCheck.resetTime, answered), NewRequest)
               /\ UNCHANGED <<activeRequests, inflight>>
          ELSE IF gateClosed(activeRequests)
          THEN /\ ev' = Event("POST", ip,
                              Response(503, "Server busy, please try again later"),
                              Undefined, NewRequest)
               /\ UNCHANGED <<activeRequests, inflight>>
          ELSE /\ activeRequests' = acquire(activeRequests)
               /\ inflight' = inflight (+) SetToBag({NewRequest})
               /\ ev' = Event("POST", ip, Pass, Undefined, NewRequest)
       /\ UNCHANGED <<now, call, invocation>>

\* a request of client ip arrives and both readings of the clock fall in the
\* same millisecond
POST(ip) == POSTAnswered(ip, now)

\* route.ts:217-271  req.formData() settles: it throws, or gives the form,
\* which is checked up to the await of video.arrayBuffer()
formDataSettled(r, form, throws) ==
    /\ r \in Suspended("formData")
    /\ IF throws THEN Finish(r, r, Uncaught)
       ELSE \E checked \in {validateUpload(form)} :
               IF checked # Pass
               THEN Finish(r, [r EXCEPT !.form = form], checked)
               ELSE Continue(r, [r EXCEPT !.pc = "arrayBuffer", !.form = form])

\* route.ts:273-276  the file is in memory; isValidVideoFile awaits the
\* type-sniffing library
arrayBufferSettled(r) ==
    /\ r \in Suspended("arrayBuffer")
    /\ Continue(r, [r EXCEPT !.pc = "fileType"])

\* route.ts:276-299  the content check ends, the filename is checked, and the
\* handler awaits mkdtemp
fileTypeSettled(r) ==
    /\ r \in Suspended("fileType")
    /\ \E checked \in {validateContent(r.form)} :
           IF checked # Pass
           THEN Finish(r, r, checked)
           ELSE Continue(r, [r EXCEPT !.pc = "mkdtemp"])

\* route.ts:299-322  mkdtemp settles: it throws, or the directory exists; the
\* paths are built and checked and the handler awaits writeFile
mkdtempSettled(r, throws) ==
    /\ r \in Suspended("mkdtemp")
    /\ IF throws THEN Finish(r, r, Uncaught)
       ELSE IF ~pathsInside(mkdtemp, now, r.form.type)
       THEN Finish(r, [r EXCEPT !.tempDir = "exists", !.stamp = now],
                   Response(400, "Invalid file path detected"))
       ELSE Continue(r, [r EXCEPT !.pc = "writeFile", !.tempDir = "exists",
                                  !.stamp = now])

\* route.ts:322-336  writeFile settles: it throws (outside the inner try), or
\* extractFrame is called
writeFileSettled(r, throws) ==
    /\ r \in Suspended("writeFile")
    /\ IF throws THEN Finish(r, r, Uncaught)
       ELSE Continue(r, [r EXCEPT !.pc = "extractFrame"])

\* route.ts:383-390  a response is ready: the finally block awaits rm
Cleanup(r, resp, error, signal) ==
    Continue(r, [r EXCEPT !.pc = "rm", !.resp = resp, !.error = error,
                          !.signal = signal])

\* faulty variant: cover embedding is started whatever extractFrame settled with
extractFrameSettledAnyway(r, integral, files, proc) ==
    /\ r \in Suspended("extractFrame")
    /\ \E result \in {extractFrame(inputPath(mkdtemp, r.stamp, r.form.type),
                                  coverPath(mkdtemp),
                                  parseFloat(stripNonNumeric(r.form.timestampRaw)),
                                  integral, files, proc)} :
          Continue(r, [r EXCEPT !.pc = "addCoverImage",
                                !.trail = IF result = Ok THEN Append(@, "extractFrame")
                                          ELSE @])

\* route.ts:326-344, 366-382  extractFrame settles
extractFrameSettled(r, integral, files, proc) ==
    /\ r \in Suspended("extractFrame")
    /\ \E result \in {extractFrame(inputPath(mkdtemp, r.stamp, r.form.type),
                                  coverPath(mkdtemp),
                                  parseFloat(stripNonNumeric(r.form.timestampRaw)),
                                  integral, files, proc)} :
          IF result = Ok
          THEN Continue(r, [r EXCEPT !.pc = "addCoverImage",
                                     !.trail = Append(@, "extractFrame")])
          ELSE Cleanup(r, classifyError(result), result,
                       IF result = executeFFmpeg(proc) THEN signalSent(proc) ELSE "")

\* route.ts:339-346, 366-382  addCoverImage settles
addCoverImageSettled(r, files, proc) ==
    /\ r \in Suspended("addCoverImage")
    /\ \E result \in {addCoverImage(inputPath(mkdtemp, r.stamp, r.form.type),
                                   coverPath(mkdtemp), outputPath(mkdtemp),
                                   files, proc)} :
          IF result = Ok
          THEN Continue(r, [r EXCEPT !.pc = "readFile",
                                     !.trail = Append(@, "addCoverImage")])
          ELSE Cleanup(r, classifyError(result), result,
                       IF result = executeFFmpeg(proc) THEN signalSent(proc) ELSE "")

\* route.ts:346-365  readFile settles: the 200 response is built, or its
\* error is caught
readFileSettled(r, message) ==
    /\ r \in Suspended("readFile")
    /\ IF message = Ok
       THEN Continue(r, [r EXCEPT
                !.pc = "rm", !.trail = Append(@, "readFile"),
                !.resp = Success(contentDisposition(sanitizeFilename(r.form.name)))])
       ELSE Cleanup(r, classifyError(message), message, "")

\* faulty variant: a failure of rm escapes the handler
rmSettledThrowing(r, removed) ==
    /\ r \in Suspended("rm")
    /\ IF removed THEN Finish(r, [r EXCEPT !.tempDir = "removed"], r.resp)
       ELSE Finish(r, r, Uncaught)

\* route.ts:383-394  rm settles (a failure is logged), the response is
\* returned and the counter released
rmSettled(r, removed) ==
    /\ r \in Suspended("rm")
    /\ Finish(r, [r EXCEPT !.tempDir = IF removed THEN "removed" ELSE "exists"],
              r.resp)

\* the clock moves on to the instant t
Tick(t) ==
    /\ t > now
    /\ now' = t
    /\ ev' = Quiet("tick")
    /\ history' = [ip \in DOMAIN history |->
                       [history[ip] EXCEPT !.passes = Recent(@, t)]]
    /\ UNCHANGED <<rateLimitStore, activeRequests, inflight, call, invocation>>

\* route.ts:30-38  the cleanup timer fires
Sweep ==
    /\ rateLimitStore' = sweep(rateLimitStore, now)
    /\ ev' = Quiet("sweep")
    /\ UNCHANGED <<now, activeRequests, inflight, history, call, invocation>>

\* the part of the state an invocation on its own leaves alone
Pipeline == <<now, rateLimitStore, activeRequests, inflight, ev, history, call>>

\* ffmpeg-secure.ts:154-200  extractFrame is called: its checks, then the
\* executor of executeFFmpeg up to the spawn
extractFrameCalled(options, integral, files, binary) ==
    /\ invocation.op = "none"
    /\ \E checked \in {extractFrameChecks(options, integral, files)} :
          invocation' =
              IF checked # Ok
              THEN settle(Invocation("extractFrame", options), "rejected", checked)
              ELSE startFFmpeg(Invocation("extractFrame", options),
                               extractFrameArgs(options), binary)
    /\ UNCHANGED Pipeline

\* ffmpeg-secure.ts:206-248  addCoverImage is called
addCoverImageCalled(options, files, binary) ==
    /\ invocation.op = "none"
    /\ \E checked \in {addCoverImageChecks(options, files)} :
          invocation' =
              IF checked # Ok
              THEN settle(Invocation("addCoverImage", options), "rejected", checked)
              ELSE startFFmpeg(Invocation("addCoverImage", options),
                               addCoverImageArgs(options), binary)
    /\ UNCHANGED Pipeline

\* the pieces of stderr an invocation collects
MaxStderrChunks == 2

\* ffmpeg-secure.ts:125-127  the process writes to stderr
stderrData(data) ==
    /\ invocation.process = "running"
    /\ invocation.chunks < MaxStderrChunks
    /\ invocation' = [invocation EXCEPT !.stderr = @ \o data, !.chunks = @ + 1]
    /\ UNCHANGED Pipeline

\* ffmpeg-secure.ts:129-132  the timeout elapses before it was cleared
timeoutElapsed ==
    /\ invocation.timer = "armed"
    /\ invocation' = timeoutFired(invocation)
    /\ UNCHANGED Pipeline

\* ffmpeg-secure.ts:134-142  the process has ended and its streams are closed
processClosed(code) ==
    /\ invocation.process = "running"
    /\ invocation' = closeHandler(invocation, code)
    /\ UNCHANGED Pipeline

\* ffmpeg-secure.ts:144-147  the process could not be spawned, killed or
\* written to
processError(text) ==
    /\ invocation.process = "running"
    /\ ~invocation.errored
    /\ invocation' = errorHandler(invocation, text)
    /\ UNCHANGED Pipeline

\* route.ts:326-336  the options POST calls extractFrame with
extractOptions(r) ==
    [input |-> inputPath(mkdtemp, r.stamp, r.form.type), output |-> coverPath(mkdtemp),
     seekTime |-> parseFloat(stripNonNumeric(r.form.timestampRaw)),
     frames |-> 1, quality |-> 2, timeout |-> EXTRACT_TIMEOUT_MS]

\* route.ts:339-344  the options POST calls addCoverImage with
coverOptions(r) ==
    [videoInput |-> inputPath(mkdtemp, r.stamp, r.form.type),
     imageInput |-> coverPath(mkdtemp), output |-> outputPath(mkdtemp),
     timeout |-> COVER_TIMEOUT_MS]

\* what an awaited invocation gives back: Ok, or the message of its Error
settledWith(inv) == IF inv.promise = "fulfilled" THEN Ok ELSE inv.message

\* route.ts:329  POST calls extractFrame, which runs up to its spawn
extractFrameStarted(r, integral, files, binary) ==
    /\ r \in Suspended("extractFrame")
    /\ extractFrameCalled(extractOptions(r), integral, files, binary)

\* route.ts:329-336, 366-382  the promise of extractFrame has settled and POST
\* goes on: to addCoverImage, or to the catch block
extractFrameReturned(r) ==
    /\ r \in Suspended("extractFrame")
    /\ invocation.op = "extractFrame" /\ invocation.promise # "pending"
    /\ invocation' = NoInvocation
    /\ IF settledWith(invocation) = Ok
       THEN Moved(r, [r EXCEPT !.pc = "addCoverImage",
                               !.trail = Append(@, "extractFrame")])
       ELSE Moved(r, [r EXCEPT !.pc = "rm", !.error = settledWith(invocation),
                               !.resp = classifyError(settledWith(invocation)),
                               !.signal = invocation.signal])

\* route.ts:339  POST calls addCoverImage
addCoverImageStarted(r, files, binary) ==
    /\ r \in Suspended("addCoverImage")
    /\ addCoverImageCalled(coverOptions(r), files, binary)

\* route.ts:339-346, 366-382  the promise of addCoverImage has settled
addCoverImageReturned(r) ==
    /\ r \in Suspended("addCoverImage")
    /\ invocation.op = "addCoverImage" /\ invocation.promise # "pending"
    /\ invocation' = NoInvocation
    /\ IF settledWith(invocation) = Ok
       THEN Moved(r, [r EXCEPT !.pc = "readFile",
                               !.trail = Append(@, "addCoverImage")])
       ELSE Moved(r, [r EXCEPT !.pc = "rm", !.error = settledWith(invocation),
                               !.resp = classifyError(settledWith(invocation)),
                               !.signal = invocation.signal])

-----------------------------------------------------------------------------
(* Environments: the inputs each specification draws                       *)

Clients == {"10.0.0.1", "10.0.0.2"}

\* 00 00 00 18 'ftyp' 'isom', zero filled
Mp4Head == <<0, 0, 0, 24, 102, 116, 121, 112, 105, 115, 111, 109>>

Mp4Buffer == [size |-> 1024, head |-> Mp4Head, fill |-> 0]

\* printable text
TextBuffer == [size |-> 1024, head |-> <<>>, fill |-> 97]

\* one byte over the limit
HugeBuffer == [size |-> MAX_FILE_SIZE + 1, head |-> Mp4Head, fill |-> 0]

GoodForm ==
    [video |-> TRUE, timestampRaw |-> "10", type |-> "video/mp4",
     name |-> "clip.mp4", buffer |-> Mp4Buffer, detected |-> "video/mp4"]

Exit0 == [kind |-> "close", code |-> 0, text |-> ""]

TimedOut == [kind |-> "timeout", code |-> 0, text |-> ""]

\* the handler steps of the admitted requests, under the given inputs
Handle(forms, throwing, procs, fileStates, readErrors) ==
    \E r \in BagToSet(inflight) :
        \/ \E form \in forms, throws \in throwing : formDataSettled(r, form, throws)
        \/ arrayBufferSettled(r)
        \/ fileTypeSettled(r)
        \/ \E throws \in throwing : mkdtempSettled(r, throws)
        \/ \E throws \in throwing : writeFileSettled(r, throws)
        \/ \E integral \in BOOLEAN, files \in fileStates, proc \in procs :
               extractFrameSettled(r, integral, files, proc)
        \/ \E files \in fileStates, proc \in procs :
               addCoverImageSettled(r, files, proc)
        \/ \E message \in readErrors \cup {Ok} : readFileSettled(r, message)
        \/ \E removed \in BOOLEAN : rmSettled(r, removed)

(* Spec: one client sends a burst of requests that are handled concurrently; *)
(* every upload is either well formed or has a timestamp out of range, and   *)
(* the media operations succeed.                                             *)
Next ==
    \/ POST("10.0.0.1")
    \/ Handle({GoodForm, [GoodForm EXCEPT !.timestampRaw = "86401"]},
              BOOLEAN, {Exit0, TimedOut}, {"ok"}, {})

Spec == Init /\ [][Next]_vars

(* SpecSeq: a client sends a few requests, each after the response to the    *)
(* one before, and the uploads, the file system and the media process vary.  *)

\* the number of requests the client of SpecSeq sends
MaxSeqRequests == 2

Timestamps ==
    { NotAString, "", "0", "10.5", "86400", "86401", "86400.0000001", "-1",
      "10;rm -rf /", "10;echo attack", "10 || rm -rf /", "10.5.5",
      "10.1234567", "abc", "10.50" }

Types == {"video/mp4", "video/x-msvideo", "text/plain"}

Names ==
    { "clip.mp4", "CLIP.MOV", "../../evil.mp4", "a/b.mp4", "c\\d.avi",
      "evil..mpg", "notes.txt", "video", "", ".mp4", Repeat("a", 96) \o ".mp4" }

Buffers == {Mp4Buffer, TextBuffer, HugeBuffer}

Forms ==
    [video : BOOLEAN, timestampRaw : Timestamps, type : Types, name : Names,
     buffer : Buffers, detected : {"none", "video/mp4"}]

Procs ==
    { Exit0, TimedOut,
      [kind |-> "nobinary", code |-> 0, text |-> ""],
      [kind |-> "error", code |-> 0, text |-> "spawn ENOMEM"],
      [kind |-> "close", code |-> 1, text |-> "[mov] moov atom not found"],
      [kind |-> "close", code |-> 1,
       text |-> "/tmp/cover-app-Ab12Cd/input_0.mp4: Invalid data found when processing input"],
      [kind |-> "close", code |-> 1,
       text |-> "/tmp/cover-app-Ab12Cd/cover.jpg: No such file or directory"] }

FileStates == {"ok", "missing", "unreadable"}

ReadErrors == {"ENOENT: no such file or directory, open 'output.mp4'"}

Sent(ip) == IF ip \in DOMAIN rateLimitStore THEN rateLimitStore[ip].requests ELSE 0

NextSeq ==
    \/ /\ inflight = EmptyBag
       /\ Sent("10.0.0.1") < MaxSeqRequests
       /\ POST("10.0.0.1")
    \/ Handle(Forms, BOOLEAN, Procs, FileStates, ReadErrors)

SpecSeq == Init /\ [][NextSeq]_vars

(* SpecRate: a client sends uploads without a file, at any of the instants   *)
(* below, while the cleanup timer fires.                                     *)

Instants == {0, 60000, 60001, 120001, 960000, 960001}

\* the second reading of the clock: the same millisecond, or the next one
Readings == {now, now + 1}

NextRate ==
    \/ \E answered \in Readings : POSTAnswered("10.0.0.1", answered)
    \/ \E r \in BagToSet(inflight) : formDataSettled(r, NoForm, FALSE)
    \/ \E t \in Instants : Tick(t)
    \/ Sweep

SpecRate == Init /\ [][NextRate]_vars

(* SpecSweep: a client sends uploads without a file, one at a time, over     *)
(* more than an hour, and a second client one upload per window, while the   *)
(* cleanup timer fires.                                                      *)

SweepInstants == {0, 60000, 959999, 960000, 3600000, 3600001, 3660001}

NextSweep ==
    \/ inflight = EmptyBag /\ POST("10.0.0.1")
    \/ inflight = EmptyBag /\ Sent("10.0.0.2") < 1 /\ POST("10.0.0.2")
    \/ \E r \in BagToSet(inflight) : formDataSettled(r, NoForm, FALSE)
    \/ \E t \in SweepInstants : Tick(t)
    \/ Sweep

SpecSweep == Init /\ [][NextSweep]_vars

(* SpecFn: the functions of the program, each applied on its own to the      *)
(* inputs below.                                                             *)

FileNames ==
    Names \cup
    { "my clip (1)!.MOV", "...", ".", "..hidden..", "-rf.mp4", "a\"b\r\nc.mp4",
      Repeat("a", 96) \o ".mp4", Repeat("a", 99) \o ".b.mp4",
      Repeat("!", 120), Repeat(".", 101) \o "x" }

\* route.ts:292-297 applied to a filename
sanitizeFilenameApplied(name) ==
    /\ call' = [fn |-> "sanitizeFilename", input |-> name,
                result |-> sanitizeFilename(name)]
    /\ UNCHANGED <<now, rateLimitStore, activeRequests, inflight, ev, history,
                   invocation>>

FtypHead == <<0, 0, 0, 24, 102, 116, 121, 112>>

RiffHead == <<82, 73, 70, 70, 0, 0, 0, 0>>

\* a buffer of 'size' bytes, 0x47 at the offsets 'syncs' and 0 elsewhere
Packets(size, syncs) ==
    [size |-> size,
     head |-> [i \in 1..(1 + CHOOSE p \in syncs : \A q \in syncs : q <= p) |->
                   IF i - 1 \in syncs THEN 71 ELSE 0],
     fill |-> 0]

SyncBuffers ==
    { Packets(377, {0, 188, 376}), Packets(376, {0, 188}), Packets(1880, {0, 188}),
      Packets(1880, {0, 376, 1692}), Packets(1880, {0, 188, 376, 564}),
      Packets(1880, {188, 376, 564}), Packets(1880, {0, 100, 200, 300}),
      Packets(3000, {0, 1880, 2068}), Packets(3000, {0, 188, 1880}),
      Packets(564, {0, 187, 375}), Packets(200, {0}) }

SniffBuffers ==
    SyncBuffers \cup
    { Mp4Buffer, TextBuffer, NoBuffer,
      [size |-> 8, head |-> FtypHead, fill |-> 0],                    \* 'ftyp', no brand
      [size |-> 10, head |-> FtypHead \o <<105, 115>>, fill |-> 0],   \* 'ftyp' 'is'
      [size |-> 12, head |-> FtypHead \o <<113, 116, 32, 32>>, fill |-> 0],   \* 'qt  '
      [size |-> 1024, head |-> FtypHead \o <<104, 101, 105, 99>>, fill |-> 0], \* 'heic'
      [size |-> 7, head |-> FtypHead, fill |-> 0],
      [size |-> 4, head |-> <<0, 0, 1, 186>>, fill |-> 0],            \* MPEG-PS
      [size |-> 3, head |-> <<0, 0, 1, 186>>, fill |-> 0],
      [size |-> 1880, head |-> <<>>, fill |-> 71],                    \* MPEG-TS
      [size |-> 377, head |-> <<>>, fill |-> 71],
      [size |-> 376, head |-> <<>>, fill |-> 71],
      [size |-> 1880, head |-> <<71>>, fill |-> 0],
      [size |-> 12, head |-> RiffHead \o <<65, 86, 73, 32>>, fill |-> 0], \* RIFF AVI
      [size |-> 11, head |-> RiffHead \o <<65, 86, 73, 32>>, fill |-> 0],
      [size |-> 64, head |-> RiffHead \o <<87, 65, 86, 69>>, fill |-> 0]  \* RIFF WAVE
    }

Detections == {"none", "throw", "image/png", "audio/x-wav", "video/mp4", "video/mpeg"}

\* route.ts:118-189 applied to a buffer, the sniffing library answering 'detected'
isValidVideoFileApplied(buffer, detected) ==
    /\ call' = [fn |-> "isValidVideoFile",
                input |-> [buffer |-> buffer, detected |-> detected],
                result |-> isValidVideoFile(buffer, detected)]
    /\ UNCHANGED <<now, rateLimitStore, activeRequests, inflight, ev, history,
                   invocation>>

HeaderValues ==
    { NoHeader, "", "10.0.0.1", "10.0.0.2, 172.16.0.1", " 10.0.0.3 ,10.0.0.4",
      ",10.0.0.5", "unknown-ip" }

\* route.ts:43-62 applied to the headers of a request
getClientIPApplied(headers) ==
    /\ call' = [fn |-> "getClientIP", input |-> headers, result |-> getClientIP(headers)]
    /\ UNCHANGED <<now, rateLimitStore, activeRequests, inflight, ev, history,
                   invocation>>

\* the messages of the Errors the media work can throw, and texts that match
\* none, one or several of the substrings looked for
Messages ==
    { "FFmpeg operation timed out", "FFmpeg binary not found",
      "FFmpeg process error: spawn ENOMEM",
      "FFmpeg failed with code 1: clip.mp4: Invalid data found when processing input",
      "FFmpeg failed with code 1: cover.jpg: No such file or directory",
      "ENOENT: no such file or directory, open 'output.mp4'",
      "Invalid seek time - must be between 0 and 86400 seconds",
      "Input file does not exist",
      "Invalid timeout - must be between 1000 and 300000 ms", "connect timeout", "timeout: No such file",
      "No such file: Invalid path", "Invalid: No such file after timeout",
      "invalid TIMEOUT", "" }

Thrown == [isError : BOOLEAN, message : Messages]

\* route.ts:366-382 applied to a thrown value
classifyThrownApplied(thrown) ==
    /\ call' = [fn |-> "classifyThrown", input |-> thrown,
                result |-> classifyThrown(thrown)]
    /\ UNCHANGED <<now, rateLimitStore, activeRequests, inflight, ev, history,
                   invocation>>

NextFn ==
    \/ \E name \in FileNames : sanitizeFilenameApplied(name)
    \/ \E thrown \in Thrown : classifyThrownApplied(thrown)
    \/ \E headers \in [forwarded : HeaderValues, realIp : HeaderValues,
                       cfConnectingIp : HeaderValues] : getClientIPApplied(headers)
    \/ \E buffer \in SniffBuffers, detected \in Detections :
           isValidVideoFileApplied(buffer, detected)

SpecFn == Init /\ [][NextFn]_vars

(* SpecExec: one call of extractFrame or addCoverImage with any options,   *)
(* and the events of its process in every order.                             *)

ExecPaths ==
    { "/tmp/cover-app-Ab12Cd/input_0.mp4", "/tmp/cover-app-Ab12Cd/cover.jpg",
      "-evil.mp4", "-y", "../x.mp4" }

SeekTimes ==
    { [int |-> 0, micro |-> 0], [int |-> 10, micro |-> 500000],
      [int |-> 86401, micro |-> 0], [int |-> -1, micro |-> 0] }

ExtractOptions ==
    [input : ExecPaths, output : ExecPaths, seekTime : SeekTimes,
     frames : {1, 11}, quality : {2, 0}, timeout : {EXTRACT_TIMEOUT_MS, 500}]

CoverOptions ==
    [videoInput : ExecPaths, imageInput : ExecPaths, output : ExecPaths,
     timeout : {COVER_TIMEOUT_MS, 700000}]

NextExec ==
    \/ \E options \in ExtractOptions, integral \in BOOLEAN, files \in FileStates,
          binary \in BOOLEAN : extractFrameCalled(options, integral, files, binary)
    \/ \E options \in CoverOptions, files \in FileStates, binary \in BOOLEAN :
           addCoverImageCalled(options, files, binary)
    \/ \E data \in {"frame=1 ", "/tmp/cover-app-Ab12Cd/input_0.mp4: Invalid data"} :
           stderrData(data)
    \/ timeoutElapsed
    \/ \E code \in {0, 1, Undefined} : processClosed(code)
    \/ \E text \in {"spawn ENOMEM", "kill EPERM"} : processError(text)

SpecExec == Init /\ [][NextExec]_vars

(* SpecLive: a client sends a few requests one after the other; each media *)
(* operation is an invocation whose process may write, fail, end or hang.    *)
(* The awaits on the request body and the file system end, and a timer that  *)
(* is armed fires unless it is cleared; nothing is assumed of the process.   *)

LiveForms == {GoodForm, [GoodForm EXCEPT !.timestampRaw = "86401"]}

\* the steps that are bound to happen
Progress ==
    \/ \E r \in BagToSet(inflight) :
           \/ \E form \in LiveForms : formDataSettled(r, form, TRUE)
           \/ \E form \in LiveForms : formDataSettled(r, form, FALSE)
           \/ arrayBufferSettled(r)
           \/ fileTypeSettled(r)
           \/ \E throws \in BOOLEAN : mkdtempSettled(r, throws)
           \/ \E throws \in BOOLEAN : writeFileSettled(r, throws)
           \/ \E files \in FileStates, binary \in BOOLEAN :
                  extractFrameStarted(r, TRUE, files, binary)
           \/ extractFrameReturned(r)
           \/ \E files \in FileStates, binary \in BOOLEAN :
                  addCoverImageStarted(r, files, binary)
           \/ addCoverImageReturned(r)
           \/ \E message \in ReadErrors : readFileSettled(r, message)
           \/ readFileSettled(r, Ok)
           \/ \E removed \in BOOLEAN : rmSettled(r, removed)
    \/ timeoutElapsed

NextLive ==
    \/ /\ inflight = EmptyBag
       /\ Sent("10.0.0.1") < MaxSeqRequests
       /\ POST("10.0.0.1")
    \/ Progress
    \/ \E data \in {"frame=1 "} : stderrData(data)
    \/ \E code \in {0, 1, Undefined} : processClosed(code)
    \/ \E text \in {"spawn ENOMEM"} : processError(text)

SpecLive == Init /\ [][NextLive]_vars /\ WF_vars(Progress)

-----------------------------------------------------------------------------
(* Properties                                                              *)

InFlight == BagCardinality(inflight)

Responded == ev.op = "respond"

Arrived == ev.op = "POST"

\* C1: under every interleaving of requests the active-request counter stays
\* within [0, 5]: the test of the counter and its increment are one step, so
\* no sixth request is let in.
C1_CounterWithinCap ==
    activeRequests \in 0..MAX_CONCURRENT_REQUESTS

\* C1 witness: the cap is reached and a further request was refused
C1_Witness ==
    activeRequests = MAX_CONCURRENT_REQUESTS /\ Arrived /\ ev.status = 503

\* C2: the counter equals the number of requests that passed both gates and
\* have not finished; a request answered 429 or 503 is not among them and
\* leaves the counter alone.
C2_CounterIsInFlight ==
    /\ activeRequests = InFlight
    /\ (Arrived /\ ev.status = 0) => InFlight >= 1

\* C2 witness: a handler ended by an exception while other requests were in
\* flight, after a request had been refused at the gate
C2_Witness ==
    /\ Responded /\ ev.body = Uncaught.body /\ ev.req.tempDir = "exists"
    /\ activeRequests = MAX_CONCURRENT_REQUESTS - 1
    /\ Sent("10.0.0.1") > MAX_CONCURRENT_REQUESTS

\* C3: for every request that created a workspace directory, the directory
\* has been removed when the handler finishes, whichever step after its
\* creation ends the request.
C3_WorkspaceRemoved ==
    (Responded /\ ev.req.tempDir # "none") => ev.req.tempDir = "removed"

Client == "10.0.0.1"

Mine == history[Client]

InFirstWindow(t) == t - Mine.first <= WINDOW_MS

\* C4: of 11 requests of a client that arrive within 60 s of its first, the
\* first 10 pass the rate check and the 11th is answered 429 with a
\* Retry-After header; every later request of the client that arrives before
\* the block expires, 15 minutes after the 11th, is answered 429 as well,
\* also when more than 60 s have passed since the window began.
C4_EleventhBlocked ==
    (Arrived /\ ev.client = Client) =>
        /\ (Mine.count <= 10 /\ InFirstWindow(now)) => ev.status # 429
        /\ (Mine.count = 11 /\ InFirstWindow(now)) =>
               ev.status = 429 /\ ev.retryAfter # Undefined
        /\ (/\ Mine.count >= 12
            /\ Mine.eleventh # Undefined
            /\ InFirstWindow(Mine.eleventh)
            /\ now < Mine.eleventh + BLOCK_DURATION_MS) =>
               ev.status = 429 /\ ev.retryAfter # Undefined

\* C4 witness: a request after the 11th, more than 60 s after the window
\* began and before the block expires, was answered 429
C4_Witness ==
    /\ Arrived /\ ev.client = Client /\ ev.status = 429
    /\ Mine.count >= 12
    /\ InFirstWindow(Mine.eleventh)
    /\ ~InFirstWindow(now)
    /\ now < Mine.eleventh + BLOCK_DURATION_MS

\* the passes of a client within the 60 s that end now (now - 60 s excluded)
PassesInLastMinute(ip) ==
    BagCardinality([u \in {v \in DOMAIN history[ip].passes : now - v < WINDOW_MS}
                      |-> history[ip].passes[u]])

\* the passes of a client since its current window began
PassesInWindow(ip) ==
    BagCardinality([u \in {v \in DOMAIN history[ip].passes :
                              v >= rateLimitStore[ip].lastReset}
                      |-> history[ip].passes[u]])

\* C5 as stated: in every interval of 60 s, wherever it starts, at most 10
\* requests of a client pass the rate check.
C5_SlidingWindow ==
    \A ip \in DOMAIN history : PassesInLastMinute(ip) <= MAX_REQUESTS_PER_MINUTE

\* C5 as amended: the limit is a fixed window.  At most 10 requests of a
\* client pass the rate check within one window, which begins with a request
\* arriving more than 60 s after the window before began (or with no entry
\* stored); an interval of 60 s that spans two windows holds at most 19.
C5_FixedWindow ==
    \A ip \in DOMAIN history :
        /\ ip \in DOMAIN rateLimitStore =>
               PassesInWindow(ip) <= MAX_REQUESTS_PER_MINUTE
        /\ PassesInLastMinute(ip) <= 2 * MAX_REQUESTS_PER_MINUTE - 1

\* C5 witness: more than 10 passes within 60 s, across a window reset
C5_Witness ==
    /\ Client \in DOMAIN history /\ Client \in DOMAIN rateLimitStore
    /\ PassesInLastMinute(Client) > MAX_REQUESTS_PER_MINUTE
    /\ PassesInWindow(Client) = MAX_REQUESTS_PER_MINUTE

\* C6: while 5 admitted requests are in flight, a request that passes the
\* rate check is answered 503; once fewer are in flight (one of them has
\* finished), a request that passes the rate check is admitted.
C6_BusyThenAdmitted ==
    [][(ev'.op = "POST" /\ ev'.status # 429) =>
          IF InFlight = MAX_CONCURRENT_REQUESTS
          THEN ev'.status = 503 /\ inflight' = inflight
          ELSE ev'.status = 0 /\ inflight' = inflight (+) SetToBag({NewRequest})]_vars

\* C6 witness: a request was admitted as the fifth in flight after a request
\* had been refused or had finished
C6_Witness ==
    /\ Arrived /\ ev.status = 0
    /\ InFlight = MAX_CONCURRENT_REQUESTS
    /\ Sent(Client) > MAX_CONCURRENT_REQUESTS + 1

\* C7: when frame extraction or cover embedding exceeds its timeout, the
\* process is killed and the request is answered 408.
C7_TimeoutAnswered408 ==
    (Responded /\ ev.req.signal = "SIGKILL") => ev.status = 408

\* what the timestamp check answers when it rejects
TimestampReasons ==
    { "Missing or invalid timestamp", "Invalid timestamp format",
      "Invalid timestamp range", "Timestamp validation failed" }

TimestampRejected == ev.status = 400 /\ ev.body \in TimestampReasons

HasForeignChar(raw) ==
    \E i \in 1..Len(raw) : CharAt(raw, i) \notin Digits \cup {"."}

DotCount(raw) == Cardinality({i \in 1..Len(raw) : CharAt(raw, i) = "."})

FractionDigits(raw) == IF FirstDot(raw) = 0 THEN 0 ELSE Len(raw) - FirstDot(raw)

ValueOutside(raw) == matchesDecimal(raw) /\ outOfRange(parseFloat(raw))

\* C8: the timestamp check accepts "86400" and rejects with a validation
\* failure (400) every raw timestamp that has a value outside [0, 86400], more
\* than six fraction digits, more than one '.', or a character other than
\* digits and '.' (a leading minus sign, injected text).
C8_TimestampCheck ==
    (Responded /\ ev.req.form.video /\ ev.req.form.timestampRaw # NotAString) =>
        LET raw == ev.req.form.timestampRaw
        IN /\ raw = "86400" => ~TimestampRejected
           /\ (\/ ValueOutside(raw)
               \/ FractionDigits(raw) > 6
               \/ DotCount(raw) > 1
               \/ HasForeignChar(raw)) => TimestampRejected

\* the responses of the single checks
FirstFailure(checks) ==
    IF \A i \in 1..Len(checks) : checks[i] = Pass THEN Pass
    ELSE checks[CHOOSE i \in 1..Len(checks) :
                    checks[i] # Pass /\ \A j \in 1..(i - 1) : checks[j] = Pass]

Unless(ok, status, body) == IF ok THEN Pass ELSE Response(status, body)

SizeCheck(form) ==
    Unless(form.buffer.size <= MAX_FILE_SIZE, 413,
           "File too large. Maximum size is 100MB.")

TypeCheck(form) ==
    Unless(form.type \in ALLOWED_TYPES, 400,
           "Invalid file type. Allowed types are: video/mp4, video/mpeg, video/quicktime, video/x-msvideo")

ExtensionCheck(form) ==
    Unless(toLowerCase(extname(form.name)) \in ALLOWED_EXTENSIONS, 400,
           "Invalid file extension. Allowed extensions are: .mp4, .mov, .mpeg, .mpg, .avi")

TraversalCheck(form) ==
    Unless(~hasTraversal(form.name), 400, "Invalid filename - path traversal detected")

ContentCheck(form) ==
    Unless(isValidVideoFile(form.buffer, form.detected), 400,
           "Invalid or unsupported video file content.")

TimestampCheck(form) == validateTimestamp(form.timestampRaw)

Answer == Response(ev.status, ev.body)

\* C9 as stated: a request that fails several validation checks is rejected
\* with the reason of the first failing check in the order size (413),
\* declared type, extension, filename traversal, content, timestamp; so a
\* file over 100 MiB is answered 413 whatever its timestamp, type or name.
C9_ClaimedOrder ==
    (Responded /\ ev.req.form.video) =>
        LET form == ev.req.form
            first == FirstFailure(<<SizeCheck(form), TypeCheck(form),
                                    ExtensionCheck(form), TraversalCheck(form),
                                    ContentCheck(form), TimestampCheck(form)>>)
        IN first # Pass => Answer = first

\* C9 as amended: the order is timestamp (presence, format, range,
\* re-serialisation), size (413), declared type, extension, content, filename
\* traversal; so a file over 100 MiB is answered 413 only when its timestamp
\* passes, whatever its type or name.
C9_CodeOrder ==
    (Responded /\ ev.req.form.video) =>
        LET form == ev.req.form
            first == FirstFailure(<<TimestampCheck(form), SizeCheck(form),
                                    TypeCheck(form), ExtensionCheck(form),
                                    ContentCheck(form), TraversalCheck(form)>>)
        IN /\ first # Pass => Answer = first
           /\ (form.buffer.size > MAX_FILE_SIZE /\ TimestampCheck(form) = Pass)
                  => ev.status = 413

\* C9 witness: a file over 100 MiB with a bad timestamp, a bad type and a
\* traversal name was answered for its timestamp
C9_Witness ==
    /\ Responded /\ ev.req.form.video
    /\ ev.req.form.buffer.size > MAX_FILE_SIZE
    /\ ev.req.form.type \notin ALLOWED_TYPES
    /\ hasTraversal(ev.req.form.name)
    /\ TimestampRejected

Sanitized == call.fn = "sanitizeFilename"

\* C11: for every input filename the sanitized filename is non-empty, at most
\* 100 characters long, made only of characters in [A-Za-z0-9._-], and neither
\* begins nor ends with a dot; when replacement, truncation and dot stripping
\* leave nothing (the first 100 characters are all dots, or there is none),
\* it is the default name 'video'.
C11_SanitizedName ==
    Sanitized =>
        LET out == call.result
            alphabet == "ABCDEFGHIJKLMNOPQRSTUVWXYZabcdefghijklmnopqrstuvwxyz0123456789._-"
        IN /\ Len(out) \in 1..100
           /\ \A i \in 1..Len(out) : Includes(alphabet, CharAt(out, i))
           /\ CharAt(out, 1) # "." /\ CharAt(out, Len(out)) # "."
           /\ (\A i \in 1..Min(Len(call.input), 100) : CharAt(call.input, i) = ".")
                  => out = "video"

\* C11 witness: a name of more than 100 characters whose 100th is a dot was
\* cut and then stripped of that dot
C11_Witness ==
    /\ Sanitized /\ Len(call.input) > 100 /\ CharAt(call.input, 100) = "."
    /\ call.result = SubSeq(call.input, 1, 99)

\* the filename="..." parameter of a Content-Disposition header
FilenameOf(header) == SubSeq(header, Len("attachment; filename=\"") + 1, Len(header) - 1)

\* C12: on every 200 response the Content-Disposition filename is the
\* sanitized base name followed by '_with_cover.mp4' and holds no double
\* quote, CR or LF, for every accepted filename, those of the greatest
\* sanitized length of 100 characters included.
C12_AttachmentName ==
    (Responded /\ ev.status = 200) =>
        LET sanitized == sanitizeFilename(ev.req.form.name)
            filename == FilenameOf(ev.disposition)
        IN /\ ev.disposition = "attachment; filename=\"" \o filename \o "\""
           /\ filename = pathParseName(sanitized) \o "_with_cover.mp4"
           /\ \A i \in 1..Len(filename) : CharAt(filename, i) \notin {"\"", "\r", "\n"}

Sniffed == call.fn = "isValidVideoFile"

\* the bytes [from, from + Len(bytes)) of the buffer exist and are 'bytes'
HasBytes(buffer, from, bytes) ==
    /\ buffer.size >= from + Len(bytes)
    /\ \A i \in 1..Len(bytes) : byteAt(buffer, from + i - 1) = bytes[i]

\* the rules of the fallback: 'ftyp' with one of the known brands, the
\* MPEG-PS start code, the MPEG-TS sync pattern, RIFF/AVI
FtypWithKnownBrand(buffer) ==
    /\ HasBytes(buffer, 4, <<102, 116, 121, 112>>)
    /\ \/ HasBytes(buffer, 8, <<105, 115, 111, 109>>)
       \/ HasBytes(buffer, 8, <<109, 112, 52, 49>>)
       \/ HasBytes(buffer, 8, <<109, 112, 52, 50>>)
       \/ HasBytes(buffer, 8, <<113, 116, 32, 32>>)

ProgramStream(buffer) == HasBytes(buffer, 0, <<0, 0, 1, 186>>)

TransportStream(buffer) ==
    /\ buffer.size >= 376
    /\ Cardinality({k \in 0..9 : 188 * k < buffer.size
                                 /\ byteAt(buffer, 188 * k) = 71}) >= 3
    /\ byteAt(buffer, 0) = 71

RiffAvi(buffer) ==
    HasBytes(buffer, 0, <<82, 73, 70, 70>>) /\ HasBytes(buffer, 8, <<65, 86, 73, 32>>)

\* C13: when the sniffing library reports no allow-listed type, a buffer is
\* classified Supported exactly when it matches one of the rules 'ftyp' with
\* a known brand, MPEG-PS start code, MPEG-TS sync pattern, RIFF/AVI; 'ftyp'
\* without a known brand and no other signature is Unsupported.
C13_FallbackRules ==
    (Sniffed /\ call.input.detected \notin
                    {"video/mp4", "video/quicktime", "video/x-msvideo", "video/mpeg"}) =>
        (call.result <=> \/ FtypWithKnownBrand(call.input.buffer)
                         \/ ProgramStream(call.input.buffer)
                         \/ TransportStream(call.input.buffer)
                         \/ RiffAvi(call.input.buffer))

Identified == call.fn = "getClientIP"

\* the entry before the first comma, without the white space around it
FirstTrimmed(value) ==
    CHOOSE entry \in {trim(SubSeq(value, 1, n)) : n \in 0..Len(value)} :
        \E n \in 0..Len(value) :
            /\ entry = trim(SubSeq(value, 1, n))
            /\ \A i \in 1..n : CharAt(value, i) # ","
            /\ n = Len(value) \/ CharAt(value, n + 1) = ","

\* the identifier by priority, 'given' telling whether a header counts
ByPriority(headers, given(_)) ==
    IF given(headers.forwarded) THEN FirstTrimmed(headers.forwarded)
    ELSE IF given(headers.realIp) THEN trim(headers.realIp)
    ELSE IF given(headers.cfConnectingIp) THEN trim(headers.cfConnectingIp)
    ELSE "unknown-ip"

Present(value) == value # NoHeader

PresentNonEmpty(value) == value # NoHeader /\ Len(value) > 0

\* C14 as stated: the client identifier is the trimmed first entry of
\* x-forwarded-for when that header is present, else the trimmed x-real-ip,
\* else the trimmed cf-connecting-ip, else 'unknown-ip'; a lower header never
\* overrides a present higher one.
C14_PresentHeaderWins ==
    Identified => call.result = ByPriority(call.input, Present)

\* C14 as amended: the same with 'present and not empty': a header whose
\* value is the empty string is passed over like an absent one.
C14_NonEmptyHeaderWins ==
    Identified => call.result = ByPriority(call.input, PresentNonEmpty)

\* C14 witness: with all three headers given, the first entry of
\* x-forwarded-for was taken, trimmed
C14_Witness ==
    /\ Identified
    /\ call.input.forwarded = " 10.0.0.3 ,10.0.0.4"
    /\ call.input.realIp = "10.0.0.1" /\ call.input.cfConnectingIp = "10.0.0.1"
    /\ call.result = "10.0.0.3"

\* the flags the binary may be given
FlagAllowList ==
    { "-i", "-ss", "-vframes", "-q:v", "-y", "-map", "-c:v", "-c:a", "-c:s",
      "-c:v:1", "-disposition:v:1", "-metadata:s:v:1", "-f", "-" }

Dashed(arg) == Len(arg) > 0 /\ CharAt(arg, 1) = "-"

\* the paths among the options of the call
PathsCalled ==
    IF invocation.op = "extractFrame"
    THEN {invocation.options.input, invocation.options.output}
    ELSE IF invocation.op = "addCoverImage"
    THEN {invocation.options.videoInput, invocation.options.imageInput,
          invocation.options.output}
    ELSE {}

\* C15: for every call of extractFrame and addCoverImage, with any paths and
\* numeric options, every element of the argument vector handed to spawn that
\* begins with '-' is in the flag allow-list; a call that would pass another
\* argument beginning with '-' (a path, a negative number) fails before a
\* process is spawned.
C15_OnlyAllowedFlags ==
    /\ \A i \in 1..Len(invocation.args) :
           Dashed(invocation.args[i]) => invocation.args[i] \in FlagAllowList
    /\ (\/ \E path \in PathsCalled : Dashed(path) /\ path \notin FlagAllowList
        \/ invocation.op = "extractFrame" /\ invocation.options.seekTime.int < 0) =>
           /\ invocation.process = "none" /\ invocation.args = <<>>
           /\ invocation.promise = "rejected"

\* C15 witness: a call whose output path begins with '-' got as far as the
\* flag check and was refused there, no process spawned
C15_Witness ==
    /\ invocation.op = "addCoverImage"
    /\ invocation.message = "Unsafe FFmpeg flag: -evil.mp4"
    /\ invocation.options.videoInput = "/tmp/cover-app-Ab12Cd/input_0.mp4"
    /\ invocation.options.imageInput = "/tmp/cover-app-Ab12Cd/cover.jpg"
    /\ invocation.process = "none"

\* C16: an invocation settles once, under every order of the timeout, close
\* and error events: it succeeds only if the process closed with status 0
\* before the timeout fired; if the timeout fires first the process is sent
\* SIGKILL and the invocation fails, and a close event that comes later, even
\* with status 0, does not make it a success.
C16_SettlesOnce ==
    [][/\ invocation.promise # "pending" =>
              /\ invocation'.promise = invocation.promise
              /\ invocation'.message = invocation.message
       /\ invocation'.promise = "fulfilled" =>
              /\ invocation'.closeSeen /\ invocation'.closed = 0
              /\ invocation'.timer = "cleared" /\ invocation'.signal = ""
       /\ invocation'.timer = "fired" =>
              /\ invocation'.signal = "SIGKILL"
              /\ invocation'.promise = "rejected"
       /\ invocation'.closeSeen => invocation'.promise # "pending"]_vars

\* C16 witness: the timeout fired, the process was killed, and its close
\* event then came with status 0: the invocation stays failed
C16_Witness ==
    /\ invocation.timer = "fired" /\ invocation.signal = "SIGKILL"
    /\ invocation.closeSeen /\ invocation.closed = 0
    /\ invocation.settled = 2
    /\ invocation.promise = "rejected"
    /\ invocation.message = "FFmpeg operation timed out"

\* a processing failure was caught and answered
FailureAnswered == Responded /\ ev.req.error # Ok

\* the class of a diagnostic text
ErrorClass(message) ==
    IF Includes(message, "timeout") THEN "timeout"
    ELSE IF Includes(message, "Invalid") THEN "invalid"
    ELSE IF Includes(message, "No such file") THEN "missing"
    ELSE "other"

\* the one response of each class
ClassResponse ==
    [timeout |-> Response(408, "Processing timeout"),
     invalid |-> Response(400, "Invalid video format"),
     missing |-> Response(400, "File processing error"),
     other   |-> Response(500, "Processing error")]

\* what the process printed, what the file system reported, and the workspace
Diagnostics ==
    {proc.text : proc \in {p \in Procs : p.text # ""}} \cup ReadErrors \cup {mkdtemp}

\* C17: the response to a processing failure depends on the diagnostic text
\* through its class only: it is the one fixed status and body of the class,
\* and no response holds output of the process or a path of the workspace.
C17_FailureResponseFixed ==
    /\ FailureAnswered => Answer = ClassResponse[ErrorClass(ev.req.error)]
    /\ \A text \in Diagnostics :
           ~Includes(ev.body, text) /\ ~Includes(ev.disposition, text)

\* C17 witness: the process printed a workspace path and the failure was
\* answered with the fixed text of its class
C17_Witness ==
    /\ FailureAnswered
    /\ Includes(ev.req.error, mkdtemp) /\ Includes(ev.req.error, "Invalid data found")
    /\ ev.status = 400 /\ ev.body = "Invalid video format"

\* every check of the upload passes
UploadValid(form) ==
    /\ form.video
    /\ FirstFailure(<<TimestampCheck(form), SizeCheck(form), TypeCheck(form),
                     ExtensionCheck(form), ContentCheck(form),
                     TraversalCheck(form)>>) = Pass

\* the operations a request has been through are in order: frame extraction,
\* cover embedding and reading of the output, each begun after the one before
\* succeeded, and none begun for an upload that fails a check
InOrder(r) ==
    /\ r.pc = "extractFrame" => r.trail = <<>>
    /\ r.pc = "addCoverImage" => r.trail = <<"extractFrame">>
    /\ r.pc = "readFile" => r.trail = <<"extractFrame", "addCoverImage">>
    /\ r.trail \in { <<>>, <<"extractFrame">>, <<"extractFrame", "addCoverImage">>,
                     <<"extractFrame", "addCoverImage", "readFile">> }
    /\ r.resp.status = 200 <=>
           r.trail = <<"extractFrame", "addCoverImage", "readFile">>
    /\ (r.trail # <<>> \/ r.pc \in {"extractFrame", "addCoverImage", "readFile"})
           => UploadValid(r.form)

\* C18: a 200 response is produced only after frame extraction and then cover
\* embedding have succeeded, in that order, and the output file was read;
\* cover embedding is never started unless frame extraction succeeded, and
\* neither is started for a request that failed admission or validation.
C18_StagesInOrder ==
    /\ \A r \in BagToSet(inflight) : InOrder(r)
    /\ Responded => /\ InOrder(ev.req)
                    /\ ev.status = 200 <=> ev.req.resp.status = 200
    /\ (Arrived /\ ev.status \in {429, 503}) =>
           ev.req.pc = "formData" /\ ev.req.trail = <<>>

\* C18 witness: a 200 response after the three operations
C18_Witness ==
    /\ Responded /\ ev.status = 200
    /\ ev.req.trail = <<"extractFrame", "addCoverImage", "readFile">>

\* C19: every request that passed admission finishes and gives its slot
\* back: each await of the handler ends, the invocations at the latest when
\* their timeout kills the process, so no request holds a slot for ever.
C19_EveryRequestFinishes ==
    (activeRequests > 0) ~> (activeRequests = 0 /\ inflight = EmptyBag)

\* C19 witness: a request whose process hung was ended by the timeout of its
\* invocation and has given its slot back
C19_Witness ==
    /\ Responded /\ activeRequests = 0
    /\ ev.req.signal = "SIGKILL" /\ ev.req.error = "FFmpeg operation timed out"
    /\ ev.req.trail = <<"extractFrame">>

\* the substrings looked for in the message of an Error, in order of
\* precedence, and the answer of each
Looked == <<"timeout", "Invalid", "No such file">>

Answers ==
    <<Response(408, "Processing timeout"), Response(400, "Invalid video format"),
      Response(400, "File processing error")>>

\* the places in Looked of the substrings the message holds
Matches(message) == {i \in DOMAIN Looked : Includes(message, Looked[i])}

Classified == call.fn = "classifyThrown"

\* C20: a processing failure is answered by the substring of its message that
\* comes first in the order 'timeout' (408), 'Invalid' (400, invalid format),
\* 'No such file' (400, missing file); a message holding none of them, and a
\* thrown value that is not an Error, is answered 500.
C20_EarliestClassWins ==
    Classified =>
        \E hits \in {Matches(call.input.message)} :
            call.result =
                IF call.input.isError /\ hits # {}
                THEN Answers[CHOOSE i \in hits : \A j \in hits : i <= j]
                ELSE Response(500, "Processing error")

\* C20 witness: an Error whose message holds the three substrings, 'timeout'
\* last, was answered 408
C20_Witness ==
    /\ Classified /\ call.input.isError
    /\ Matches(call.input.message) = {1, 2, 3}
    /\ StartsWith(call.input.message, "Invalid")
    /\ call.result = Response(408, "Processing timeout")

\* the offsets within the first 1880 bytes that are multiples of 188 and hold
\* the sync byte 0x47
SyncPositions(buffer) ==
    {p \in 0..1879 : p % 188 = 0 /\ p < buffer.size /\ byteAt(buffer, p) = 71}

\* nothing but the transport-stream rule can accept the buffer
OnlyTransportRule ==
    /\ Sniffed
    /\ call.input.detected \notin supportedMimes
    /\ ~FtypWithKnownBrand(call.input.buffer)
    /\ ~HasBytes(call.input.buffer, 4, <<102, 116, 121, 112>>)
    /\ ~ProgramStream(call.input.buffer)
    /\ ~RiffAvi(call.input.buffer)

\* C21: a buffer is taken for an MPEG transport stream only if its first byte
\* is 0x47 and at least 3 of the offsets that are multiples of 188 within the
\* first 1880 bytes (offset 0 among them) hold 0x47; a buffer whose only sync
\* byte is the first, or too short to hold three such offsets, is not.
C21_TransportStreamRule ==
    OnlyTransportRule =>
        /\ call.result => /\ byteAt(call.input.buffer, 0) = 71
                          /\ Cardinality(SyncPositions(call.input.buffer)) >= 3
        /\ SyncPositions(call.input.buffer) = {0} => ~call.result
        /\ call.input.buffer.size <= 2 * 188 => ~call.result

\* C21 witness: a buffer of 377 bytes with sync bytes at 0, 188 and 376 and
\* nowhere else was accepted
C21_Witness ==
    /\ OnlyTransportRule /\ call.result
    /\ call.input.buffer.size = 377
    /\ SyncPositions(call.input.buffer) = {0, 188, 376}

\* one or more digits, optionally '.' and one to six digits
StrictDecimal(raw) ==
    \E n \in 1..Len(raw) :
        /\ \A i \in 1..n : CharAt(raw, i) \in Digits
        /\ \/ n = Len(raw)
           \/ /\ CharAt(raw, n + 1) = "."
              /\ Len(raw) - (n + 1) \in 1..6
              /\ \A i \in (n + 2)..Len(raw) : CharAt(raw, i) \in Digits

\* C22: every timestamp string that matches the strict decimal pattern and
\* whose value lies in [0, 86400] passes the timestamp check; trailing zeros
\* of the fraction are tolerated, so "10.50" is accepted.
C22_StrictDecimalAccepted ==
    (Responded /\ ev.req.form.video /\ StrictDecimal(ev.req.form.timestampRaw)
               /\ ~ValueOutside(ev.req.form.timestampRaw)) => ~TimestampRejected

\* the cleanup timer has just fired
Swept == ev'.op = "sweep"

Flagged == {ip \in DOMAIN rateLimitStore : rateLimitStore[ip].blocked}

\* C24 as stated: in every state of the table, also those reached by the
\* passage of time alone, an entry whose blocked flag is set has a block
\* expiry strictly later than the current time.
C24_BlockedNotExpired ==
    \A ip \in Flagged : /\ rateLimitStore[ip].blockUntil # Undefined
                         /\ rateLimitStore[ip].blockUntil > now

\* C24 as the code has it: an entry whose blocked flag is set has a block
\* expiry, which is strictly later than the current time right after a
\* request of its client; the passage of time leaves the flag set beyond the
\* expiry until the next request of the client clears it.
C24_BlockedNotExpiredWhenTouched ==
    \A ip \in Flagged :
        /\ rateLimitStore[ip].blockUntil # Undefined
        /\ rateLimitStore[ip].blockUntil <= history[ip].touched + BLOCK_DURATION_MS
        /\ (Arrived /\ ev.client = ip) => rateLimitStore[ip].blockUntil > now

\* C24 witness: time has passed beyond the expiry of a block and the flag of
\* its entry is still set
C24_Witness ==
    /\ ev.op = "tick"
    /\ \E ip \in Flagged : rateLimitStore[ip].blockUntil <= now

\* the units of its minute a client has used when a request of it arrives
UsedBefore(ip) ==
    IF ip \in DOMAIN rateLimitStore /\ now - rateLimitStore[ip].lastReset <= WINDOW_MS
    THEN rateLimitStore[ip].requests
    ELSE 0

\* C25: a request that passes the rate check and finds the concurrency gate
\* full is answered 503 with no Retry-After header, its client is not
\* blocked and no slot is taken, yet one unit of the client's count for the
\* minute is used: requests answered 503 count toward the limit of 10.
C25_BusyStillCounted ==
    [][(ev'.op = "POST" /\ ev'.status = 503) =>
          /\ ev'.retryAfter = Undefined
          /\ ~rateLimitStore'[ev'.client].blocked
          /\ rateLimitStore'[ev'.client].requests = UsedBefore(ev'.client) + 1
          /\ activeRequests' = activeRequests /\ inflight' = inflight]_vars

\* C25 witness: with five requests in flight, a request answered 503 has used
\* the tenth unit of its client
C25_Witness ==
    /\ Arrived /\ ev.status = 503 /\ ev.retryAfter = Undefined
    /\ InFlight = MAX_CONCURRENT_REQUESTS
    /\ Sent(ev.client) = MAX_REQUESTS_PER_MINUTE
    /\ ~rateLimitStore[ev.client].blocked

\* a request was refused by the rate check
Refused == Arrived /\ ev.status = 429

\* the request that set the block, and a request that met it
SetTheBlock == ev.body = "Rate limit exceeded - too many requests per minute"

MetTheBlock == ev.body = "IP temporarily blocked due to excessive requests"

\* the whole seconds, rounded up, from t to the end of the client's block
SecondsLeft(t) ==
    CHOOSE n \in 0..(BLOCK_DURATION_MS \div 1000) :
        /\ n * 1000 >= rateLimitStore[ev.client].blockUntil - t
        /\ (n - 1) * 1000 < rateLimitStore[ev.client].blockUntil - t

\* the Retry-After header is the time left when the response is built
RetryAfterIsTimeLeft ==
    /\ SetTheBlock \/ MetTheBlock
    /\ ev.retryAfter # Undefined
    /\ \E answered \in Readings : ev.retryAfter = SecondsLeft(answered)
    /\ SetTheBlock => ev.retryAfter = 900

\* C26 as stated: every 429 response carries a Retry-After header, the
\* seconds rounded up from the time of the response to the end of the
\* client's block: 900 for the request that sets the block, an integer from
\* 1 to 900 for a request refused during the block.
C26_RetryAfterFromOne ==
    Refused => RetryAfterIsTimeLeft /\ ev.retryAfter \in 1..900

\* C26 as the code has it: the header of a request refused during the block
\* is an integer from 0 to 900, 0 when the block ends between the rate check
\* and the building of the response.
C26_RetryAfterFromZero ==
    Refused => RetryAfterIsTimeLeft /\ ev.retryAfter \in 0..900

\* C26 witness: a request refused one millisecond before the end of the
\* block was answered when the block had ended, with Retry-After 0
C26_Witness ==
    /\ Refused /\ MetTheBlock
    /\ rateLimitStore[ev.client].blockUntil = now + 1
    /\ ev.retryAfter = 0

\* the handler of a request has ended after the cleanup of its workspace
CleanedUp == ev'.op = "respond" /\ ev'.req.pc = "rm"

\* C27: a failure to remove the workspace never changes the outcome: the
\* response computed before the cleanup (200, or the classified error) is
\* the one returned, whether rm succeeded or not, and the counter of active
\* requests is decremented.
C27_CleanupKeepsOutcome ==
    [][CleanedUp =>
          \E r \in BagToSet(inflight) :
              /\ r.pc = "rm"
              /\ inflight' = inflight (-) SetToBag({r})
              /\ ev'.req.tempDir \in {"removed", "exists"}
              /\ ev'.status = r.resp.status /\ ev'.body = r.resp.body
              /\ r.resp.status = 200 \/ r.resp = ClassResponse[ErrorClass(r.error)]
              /\ activeRequests' = activeRequests - 1]_vars

\* C27 witness: the workspace could not be removed and the request was
\* answered 200, the counter being back at 0
C27_Witness ==
    /\ Responded /\ ev.req.pc = "rm" /\ ev.req.tempDir = "exists"
    /\ ev.status = 200 /\ activeRequests = 0

\* the awaits of the handler before and after the workspace is created
BeforeWorkspace == {"formData", "arrayBuffer", "fileType", "mkdtemp"}

AfterWorkspace == {"writeFile", "extractFrame", "addCoverImage", "readFile", "rm"}

\* the workspace of r exists only past the one await of mkdtemp, for an
\* upload that passes every check, and the input file is written after it
WorkspaceInPlace(r) ==
    /\ r.pc \in BeforeWorkspace \cup AfterWorkspace
    /\ r.pc \in BeforeWorkspace /\ r.pc # "mkdtemp" => r.tempDir = "none"
    /\ r.pc \in AfterWorkspace => r.tempDir # "none"
    /\ r.tempDir # "none" => UploadValid(r.form)
    /\ r.trail # <<>> => r.pc \in AfterWorkspace \ {"writeFile"}

\* C28: the workspace directory is created at most once per request, at the
\* one await of mkdtemp, and only after the timestamp, size, declared type,
\* extension, content and filename checks have passed; a request rejected by
\* validation has no directory and has written no file.
C28_WorkspaceAfterChecks ==
    /\ \A r \in BagToSet(inflight) :
           WorkspaceInPlace(r) /\ (r.pc = "mkdtemp" => r.tempDir = "none")
    /\ Responded =>
           /\ WorkspaceInPlace(ev.req)
           /\ ~UploadValid(ev.req.form) =>
                  /\ ev.req.pc \in {"formData", "fileType"}
                  /\ ev.req.tempDir = "none" /\ ev.req.trail = <<>>

\* C28 witness: an upload that passes every check but the content check was
\* answered 400 with no workspace made
C28_Witness ==
    /\ Responded /\ ev.status = 400 /\ ev.req.pc = "fileType"
    /\ ev.req.tempDir = "none"
    /\ TimestampCheck(ev.req.form) = Pass /\ ExtensionCheck(ev.req.form) = Pass
    /\ ContentCheck(ev.req.form) # Pass

\* the length a bounded buffer would keep the captured text within (any
\* length does: the process may write that much and one piece more)
StderrBound == 64

\* C29: the text captured from the standard error of the process is held in
\* a bounded buffer: its length never exceeds a fixed bound, however much
\* the process writes before it ends or is killed.
C29_StderrBounded ==
    Len(invocation.stderr) <= StderrBound

\* a request of the client has just been answered by the rate check
Checked == ev'.op = "POST" /\ ev'.client = Client

\* the block of the client's entry as it stood when the request arrived
BlockPending ==
    /\ Client \in DOMAIN rateLimitStore
    /\ rateLimitStore[Client].blocked
    /\ now < rateLimitStore[Client].blockUntil

\* C30: a request refused because its client is blocked leaves the client's
\* entry as it was (count, window start, flag, expiry), so requests during a
\* block never extend it: the block ends exactly 15 minutes after the
\* request that set it.
C30_BlockNotExtended ==
    [][Checked =>
          /\ BlockPending <=> ev'.body = "IP temporarily blocked due to excessive requests"
          /\ BlockPending => rateLimitStore' = rateLimitStore /\ ev'.status = 429
          /\ ev'.body = "Rate limit exceeded - too many requests per minute" =>
                 /\ rateLimitStore'[Client].blocked
                 /\ rateLimitStore'[Client].blockUntil = now + BLOCK_DURATION_MS]_vars

\* C30 witness: a request was refused during the block, later than the 11th
\* request, which set it, and the expiry is still 15 minutes after the 11th
C30_Witness ==
    /\ Refused /\ MetTheBlock /\ ev.client = Client
    /\ Mine.count = MaxCounted
    /\ now > Mine.eleventh
    /\ rateLimitStore[Client].blockUntil = Mine.eleventh + BLOCK_DURATION_MS

\* the block of the client's entry has run out when the request arrives
BlockRunOut ==
    /\ Client \in DOMAIN rateLimitStore
    /\ rateLimitStore[Client].blocked
    /\ now >= rateLimitStore[Client].blockUntil

\* C31: a block always lifts: the first request of a blocked client that
\* arrives at or after the expiry of its block is not answered 429; it clears
\* the blocked flag, starts a fresh window and is request 1 of that window.
C31_BlockLifts ==
    [][(Checked /\ BlockRunOut) =>
          /\ ev'.status # 429
          /\ rateLimitStore'[Client] =
                 [requests |-> 1, lastReset |-> now, blocked |-> FALSE,
                  blockUntil |-> Undefined]]_vars

\* C31 witness: a request arriving at the very instant the block of its
\* client expires was admitted as request 1 of a new window
C31_Witness ==
    /\ Arrived /\ ev.client = Client /\ ev.status = 0
    /\ Mine.eleventh # Undefined
    /\ now = Mine.eleventh + BLOCK_DURATION_MS
    /\ rateLimitStore[Client] =
           [requests |-> 1, lastReset |-> now, blocked |-> FALSE,
            blockUntil |-> Undefined]

\* the clients whose block is running
Blocked ==
    {ip \in DOMAIN rateLimitStore :
        rateLimitStore[ip].blocked /\ now < rateLimitStore[ip].blockUntil}

\* C32: whenever the cleanup timer fires, the entry of a client whose block
\* is still running is kept as it is, so no blocked client gets access
\* early through the removal of its entry.
C32_SweepKeepsBlocked ==
    [][Swept => \A ip \in Blocked :
                   /\ ip \in DOMAIN rateLimitStore'
                   /\ rateLimitStore'[ip] = rateLimitStore[ip]]_vars

\* C32 witness: a sweep has removed the entry of one client and kept that of
\* another, whose block is running
C32_Witness ==
    /\ ev.op = "sweep"
    /\ Blocked # {}
    /\ \E ip \in DOMAIN history : ip \notin DOMAIN rateLimitStore

\* C33: in every reachable state the request count of every stored entry lies
\* between 0 and 10 inclusive.
C33_CountWithinLimit ==
    \A ip \in DOMAIN rateLimitStore :
        rateLimitStore[ip].requests \in 0..MAX_REQUESTS_PER_MINUTE

\* C33 witness: a request met a full window: it was refused, the block was
\* set and the count stayed at 10
C33_Witness ==
    /\ Arrived /\ ev.client = Client /\ ev.status = 429
    /\ Mine.count = MAX_REQUESTS_PER_MINUTE + 1
    /\ rateLimitStore[Client].requests = MAX_REQUESTS_PER_MINUTE
    /\ rateLimitStore[Client].blocked

=============================================================================
